---- MODULE Spec2Model ----
(***************************************************************************)
(* A model of launchdarkly/js-test-helpers: the Promise-based blocking     *)
(* queue (AsyncQueue), the asynchronous lock (AsyncMutex) and the request  *)
(* dispatch of the embedded test server (TestHttpServer).                  *)
(*                                                                         *)
(* Node runs all of this on one event loop, so every action below is one   *)
(* run-to-completion stretch of code between two suspension points         *)
(* (an await, an I/O callback).  A Promise is modelled by a record with    *)
(* its settlement state; the continuation of an await runs as a separate,  *)
(* later action.                                                           *)
(*                                                                         *)
(* The components are independent state machines: the queue, the mutex,    *)
(* the request dispatch, the streaming handlers and the choice of a port.  *)
(* Each has its own specification over the shared variable list; a         *)
(* specification leaves the other components' variables at their initial   *)
(* values.                                                                 *)
(***************************************************************************)
EXTENDS Integers, Sequences, FiniteSets, TLC

VARIABLES
  queue,       \* the AsyncQueue under test: [items, awaiters, closed]
  takes,       \* one Promise per take() call on queue, in call order
  adds,        \* history: one entry per add() call on queue, in call order
  closeCalls,  \* history: number of close() calls on queue so far
  mutex,       \* the AsyncMutex under test: [held, awaiters]
  pc,          \* per task: "idle", "awaiting" (in await lock.acquire()), "critical"
  acq,         \* per task: what its last acquire() returned, and its settlement
  acqOrder,    \* history: the tasks in the order of their acquire() calls
  enterOrder,  \* history: the tasks in the order they entered the critical section
  dos,         \* per task: its lock.do(action) call, if it is in one, and its Promise
  freeReleases, \* history: per release() by a non-holder, the acquire() calls before it
  proxy,       \* TestHttpServer: the constructor's proxy argument
  requests,    \* TestHttpServer.requests: an AsyncQueue of captured requests
  responses,   \* TestHttpServer.responses: the responses pushed so far
  matchers,    \* TestHttpServer.matchers: [method, path, handler] closures
  defaultHandler, \* TestHttpServer.defaultHandler
  count,       \* TestHttpServer.count
  listening,   \* FALSE once closeAndWait() has closed the listening socket
  conns,       \* the requests received, in arrival order, with their stage
  wrappers,    \* per request: the TestHttpRequest object built for it, if any
  res,         \* per request: its http.ServerResponse
  nextReqs,    \* one Promise per nextRequest() call, in call order
  registered,  \* history: the forMethodAndPath calls, in call order
  outbound,    \* per request: the request the proxy made to the target, if any
  defaults,    \* history: the handlers given to byDefault, in call order
  streamHandler, \* the streaming handler made: its status and headers, or NoHandler
  hpc,         \* its invocation for one request: "idle", "awaiting" or "done"
  out,         \* the calls the handler has made on the response, in order
  chunkQueue,  \* the AsyncQueue of chunks the handler reads
  chunkTakes,  \* one Promise per take() the handler made on chunkQueue
  chunkAdds,   \* history: the add() calls made on chunkQueue, in call order
  eventQueue,  \* the AsyncQueue of SSE items given to sseStream
  eventTakes,  \* one Promise per take() the task of sseStream made on eventQueue
  eventAdds,   \* history: the add() calls made on eventQueue, in call order
  task,        \* the task of sseStream: "none", "awaiting" or "done"
  closes,      \* history: the close() calls the test made on either queue
  nextPort,    \* TestHttpServer.nextPort (static)
  inUse,       \* the ports some socket is bound to
  servers,     \* one entry per TestHttpServer.start call, in call order
  closeables,  \* one entry per withCloseable call, in call order
  wrapped,     \* one entry per call of a function made by promisify(Single)
  sink,        \* the AsyncQueue returned by eventSink(emitter, SinkName)
  sinkTakes,   \* one Promise per take() call on sink, in call order
  emitted      \* history: the emitter.emit calls, in call order

queueVars == <<queue, takes, adds, closeCalls>>
mutexVars == <<mutex, pc, acq, acqOrder, enterOrder, dos, freeReleases>>
serverVars == <<proxy, requests, responses, matchers, defaultHandler, count,
                listening, conns, wrappers, res, nextReqs, registered, defaults,
                outbound>>
streamVars == <<streamHandler, hpc, out, chunkQueue, chunkTakes, chunkAdds,
                eventQueue, eventTakes, eventAdds, task, closes>>
portVars == <<nextPort, inUse, servers>>
helperVars == <<closeables, wrapped, sink, sinkTakes, emitted>>
vars == <<queueVars, mutexVars, serverVars, streamVars, portVars, helperVars>>

(***************************************************************************)
(* Bounds of the model.                                                    *)
(***************************************************************************)
NumItems == 2        \* distinct item values a caller may add
MaxQueueCalls == 6   \* add/take/close calls made on the queue under test
NumTasks == 3        \* tasks contending for the mutex under test
MaxAcquires == 4     \* acquire() calls made on the mutex under test
NumDoTasks == 2      \* tasks that use do() and release() on a free mutex
MaxDoCalls == 3      \* acquire() and do() calls made by those tasks
MaxFreeReleases == 2 \* release() calls made on the mutex while it is free
MaxServerCalls == 3  \* calls the test makes on the server plus requests it sends
MaxStreamCalls == 5  \* calls the test makes on a streaming handler and its queue
MaxPorts == 3        \* ports the counter of start may hand out
MaxStarts == 2       \* TestHttpServer.start calls
MaxCloseableCalls == 2 \* withCloseable calls
MaxWrappedCalls == 2 \* calls of functions made by promisify and promisifySingle
MaxCallbacks == 3    \* callback invocations made by the wrapped functions
MaxSinkCalls == 4    \* emit calls on the emitter plus take calls on the sink

Items == 1..NumItems
NoValue == 0         \* "undefined": the value of a Promise that holds none

Max(a, b) == IF a >= b THEN a ELSE b

(***************************************************************************)
(* Promises.  st is "pending", "resolved" or "rejected"; resolve and       *)
(* reject settle a pending Promise and do nothing to a settled one.        *)
(* nSettle counts the resolve/reject calls made on the Promise.            *)
(***************************************************************************)
QueueClosed == "queue was closed"

Resolve(p, v) ==
  IF p.st = "pending"
  THEN [p EXCEPT !.st = "resolved", !.val = v, !.nSettle = @ + 1]
  ELSE [p EXCEPT !.nSettle = @ + 1]

Reject(p, e) ==
  IF p.st = "pending"
  THEN [p EXCEPT !.st = "rejected", !.err = e, !.nSettle = @ + 1]
  ELSE [p EXCEPT !.nSettle = @ + 1]

\* A settlement a queue operation asks for: who |-> the awaiter (the index of
\* the take() call that created it), ok |-> resolve or reject, v |-> the value.
Settle1(p, s) == IF s.ok THEN Resolve(p, s.v) ELSE Reject(p, QueueClosed)

RECURSIVE ApplySettles(_, _)
ApplySettles(ps, ss) ==
  IF ss = <<>> THEN ps
  ELSE ApplySettles([ps EXCEPT ![Head(ss).who] = Settle1(@, Head(ss))], Tail(ss))

(***************************************************************************)
(* AsyncQueue.  Each operation is a function of the queue's fields that    *)
(* gives the new fields (q) and the settlements it performs (settle).      *)
(***************************************************************************)
AsyncQueue_new == [items |-> <<>>, awaiters |-> <<>>, closed |-> FALSE]

AsyncQueue_add_pushAlways(q, item) ==
  IF ~q.closed
  THEN [q |-> [q EXCEPT !.items = Append(@, item)], settle |-> <<>>]
  ELSE [q |-> q, settle |-> <<>>]

AsyncQueue_add_ignoresClosed(q, item) ==
  IF Len(q.awaiters) > 0
  THEN [q |-> [q EXCEPT !.awaiters = Tail(@)],
        settle |-> <<[who |-> Head(q.awaiters), ok |-> TRUE, v |-> item]>>]
  ELSE [q |-> [q EXCEPT !.items = Append(@, item)], settle |-> <<>>]

AsyncQueue_add_newestWaiter(q, item) ==
  IF ~q.closed
  THEN IF Len(q.awaiters) > 0
       THEN [q |-> [q EXCEPT !.awaiters = SubSeq(@, 1, Len(@) - 1)],
             settle |-> <<[who |-> q.awaiters[Len(q.awaiters)],
                           ok |-> TRUE, v |-> item]>>]
       ELSE [q |-> [q EXCEPT !.items = Append(@, item)], settle |-> <<>>]
  ELSE [q |-> q, settle |-> <<>>]

AsyncQueue_add(q, item) ==
  IF ~q.closed
  THEN IF Len(q.awaiters) > 0
       THEN [q |-> [q EXCEPT !.awaiters = Tail(@)],
             settle |-> <<[who |-> Head(q.awaiters), ok |-> TRUE, v |-> item]>>]
       ELSE [q |-> [q EXCEPT !.items = Append(@, item)], settle |-> <<>>]
  ELSE [q |-> q, settle |-> <<>>]

\* take() called as the Promise `me`: settled at once, or registered as awaiter.
AsyncQueue_take_last(q, me) ==
  IF Len(q.items) > 0
  THEN [q |-> [q EXCEPT !.items = SubSeq(@, 1, Len(@) - 1)],
        settle |-> <<[who |-> me, ok |-> TRUE, v |-> q.items[Len(q.items)]]>>]
  ELSE IF q.closed
  THEN [q |-> q, settle |-> <<[who |-> me, ok |-> FALSE, v |-> NoValue]>>]
  ELSE [q |-> [q EXCEPT !.awaiters = Append(@, me)], settle |-> <<>>]

AsyncQueue_take_closedFirst(q, me) ==
  IF q.closed
  THEN [q |-> q, settle |-> <<[who |-> me, ok |-> FALSE, v |-> NoValue]>>]
  ELSE IF Len(q.items) > 0
  THEN [q |-> [q EXCEPT !.items = Tail(@)],
        settle |-> <<[who |-> me, ok |-> TRUE, v |-> Head(q.items)]>>]
  ELSE [q |-> [q EXCEPT !.awaiters = Append(@, me)], settle |-> <<>>]

AsyncQueue_take_peeks(q, me) ==
  IF Len(q.items) > 0
  THEN [q |-> q, settle |-> <<[who |-> me, ok |-> TRUE, v |-> Head(q.items)]>>]
  ELSE IF q.closed
  THEN [q |-> q, settle |-> <<[who |-> me, ok |-> FALSE, v |-> NoValue]>>]
  ELSE [q |-> [q EXCEPT !.awaiters = Append(@, me)], settle |-> <<>>]

AsyncQueue_take(q, me) ==
  IF Len(q.items) > 0
  THEN [q |-> [q EXCEPT !.items = Tail(@)],
        settle |-> <<[who |-> me, ok |-> TRUE, v |-> Head(q.items)]>>]
  ELSE IF q.closed
  THEN [q |-> q, settle |-> <<[who |-> me, ok |-> FALSE, v |-> NoValue]>>]
  ELSE [q |-> [q EXCEPT !.awaiters = Append(@, me)], settle |-> <<>>]

AsyncQueue_isEmpty(q) == Len(q.items) = 0

AsyncQueue_length_lessAwaiters(q) == Len(q.items) - Len(q.awaiters)

AsyncQueue_length(q) == Len(q.items)

\* while (awaiters.length > 0) awaiters.shift().reject(...); closed = true
AsyncQueue_close_firstOnly(q) ==
  [q |-> [q EXCEPT !.awaiters = IF @ = <<>> THEN @ ELSE Tail(@),
                   !.closed = TRUE],
   settle |-> IF q.awaiters = <<>> THEN <<>>
              ELSE <<[who |-> Head(q.awaiters), ok |-> FALSE, v |-> NoValue]>>]

AsyncQueue_close(q) ==
  [q |-> [q EXCEPT !.awaiters = <<>>, !.closed = TRUE],
   settle |-> [i \in 1..Len(q.awaiters) |->
                 [who |-> q.awaiters[i], ok |-> FALSE, v |-> NoValue]]]

(***************************************************************************)
(* The queue under test and its callers.                                   *)
(***************************************************************************)
NewPromise ==
  [st |-> "pending", val |-> NoValue, err |-> "", nSettle |-> 0]

\* The items of the add() calls made before the first close(), in call order.
RECURSIVE OpenAdds(_)
OpenAdds(as) ==
  IF as = <<>> THEN <<>>
  ELSE IF Head(as).afterClose THEN OpenAdds(Tail(as))
  ELSE <<Head(as).item>> \o OpenAdds(Tail(as))

QueueCalls == Len(adds) + Len(takes) + closeCalls

InitQueueVars ==
  /\ queue = AsyncQueue_new
  /\ takes = <<>>
  /\ adds = <<>>
  /\ closeCalls = 0

\* A caller runs queue.add(item).
Add(item) ==
  /\ QueueCalls < MaxQueueCalls
  /\ LET r == AsyncQueue_add(queue, item) IN
       /\ queue' = r.q
       /\ takes' = ApplySettles(takes, r.settle)
  /\ adds' = Append(adds, [item |-> item, afterClose |-> closeCalls > 0])
  /\ UNCHANGED closeCalls
  /\ UNCHANGED <<mutexVars, serverVars, streamVars, portVars, helperVars>>

\* A caller runs queue.take(); the Promise it gets is takes[Len(takes) + 1].
\* The record also keeps what the caller could see at the call: how many items
\* had been added before any close (addsAtCall), whether a close had been
\* called (afterClose), and whether the call registered an awaiter (waited).
Take ==
  /\ QueueCalls < MaxQueueCalls
  /\ LET me == Len(takes) + 1
         r == AsyncQueue_take(queue, me)
         p == [NewPromise EXCEPT !.nSettle = 0] @@
              [addsAtCall |-> Len(OpenAdds(adds)),
               afterClose |-> closeCalls > 0,
               waited |-> Len(r.q.awaiters) > Len(queue.awaiters)]
     IN
       /\ queue' = r.q
       /\ takes' = ApplySettles(Append(takes, p), r.settle)
  /\ UNCHANGED <<adds, closeCalls>>
  /\ UNCHANGED <<mutexVars, serverVars, streamVars, portVars, helperVars>>

\* A caller runs queue.close().
Close ==
  /\ QueueCalls < MaxQueueCalls
  /\ LET r == AsyncQueue_close(queue) IN
       /\ queue' = r.q
       /\ takes' = ApplySettles(takes, r.settle)
  /\ closeCalls' = closeCalls + 1
  /\ UNCHANGED adds
  /\ UNCHANGED <<mutexVars, serverVars, streamVars, portVars, helperVars>>

NextQueue ==
  \/ \E item \in Items : Add(item)
  \/ Take
  \/ Close

(***************************************************************************)
(* AsyncMutex.  acquire gives the new fields (m) and what the call returns *)
(* (ret): nothing when the lock was free, else the Promise of the awaiter  *)
(* it queued.  release gives the new fields and the awaiters whose         *)
(* callback it calls (callback).                                           *)
(***************************************************************************)
AsyncMutex_new == [held |-> 0, awaiters |-> <<>>]

AsyncMutex_acquire_uncounted(m, me) ==
  IF m.held = 0
  THEN [m |-> [m EXCEPT !.held = 1], ret |-> "undefined"]
  ELSE [m |-> [m EXCEPT !.awaiters = Append(@, me)], ret |-> "promise"]

AsyncMutex_acquire(m, me) ==
  IF m.held = 0
  THEN [m |-> [m EXCEPT !.held = 1], ret |-> "undefined"]
  ELSE [m |-> [held |-> m.held + 1, awaiters |-> Append(m.awaiters, me)],
        ret |-> "promise"]

AsyncMutex_release_marksFree(m) ==
  IF m.held # 0
  THEN IF Len(m.awaiters) > 0
       THEN [m |-> [held |-> 0, awaiters |-> Tail(m.awaiters)],
             callback |-> <<Head(m.awaiters)>>]
       ELSE [m |-> [m EXCEPT !.held = 0], callback |-> <<>>]
  ELSE [m |-> m, callback |-> <<>>]

AsyncMutex_release_newest(m) ==
  IF m.held # 0
  THEN IF Len(m.awaiters) > 0
       THEN [m |-> [held |-> m.held - 1,
                    awaiters |-> SubSeq(m.awaiters, 1, Len(m.awaiters) - 1)],
             callback |-> <<m.awaiters[Len(m.awaiters)]>>]
       ELSE [m |-> [m EXCEPT !.held = 0], callback |-> <<>>]
  ELSE [m |-> m, callback |-> <<>>]

AsyncMutex_release_dropsWaiter(m) ==
  IF m.held # 0
  THEN IF Len(m.awaiters) > 0
       THEN [m |-> [held |-> m.held - 1, awaiters |-> Tail(m.awaiters)],
             callback |-> <<>>]
       ELSE [m |-> [m EXCEPT !.held = 0], callback |-> <<>>]
  ELSE [m |-> m, callback |-> <<>>]

AsyncMutex_release_unchecked(m) ==
  IF Len(m.awaiters) > 0
  THEN [m |-> [held |-> m.held - 1, awaiters |-> Tail(m.awaiters)],
        callback |-> <<Head(m.awaiters)>>]
  ELSE [m |-> [m EXCEPT !.held = @ - 1], callback |-> <<>>]

AsyncMutex_release(m) ==
  IF m.held # 0
  THEN IF Len(m.awaiters) > 0
       THEN [m |-> [held |-> m.held - 1, awaiters |-> Tail(m.awaiters)],
             callback |-> <<Head(m.awaiters)>>]
       ELSE [m |-> [m EXCEPT !.held = 0], callback |-> <<>>]
  ELSE [m |-> m, callback |-> <<>>]

(***************************************************************************)
(* The mutex under test and the tasks contending for it.  A task runs      *)
(*     await lock.acquire(); <critical section>; lock.release();           *)
(* and may then start over.  The critical section may itself suspend       *)
(* (task1 of the test sleeps in it), so entering it and releasing the lock *)
(* are separate actions.                                                   *)
(***************************************************************************)
Tasks == 1..NumTasks

\* What the action given to do() ends with: a value or an error.
ActionOutcomes == {[ok |-> TRUE, v |-> "value"], [ok |-> FALSE, v |-> "error"]}

NoDo == [mode |-> "plain", st |-> "none", v |-> "", releases |-> 0,
         action |-> [ok |-> TRUE, v |-> ""]]

AsyncMutex_do_finish_releasesOnSuccess(outcome) ==
  [release |-> outcome.ok, ok |-> outcome.ok, v |-> outcome.v]

\* do: try { return await action(); } finally { this.release(); }
\* release is called whatever the outcome, which is then passed on.
AsyncMutex_do_finish(outcome) ==
  [release |-> TRUE, ok |-> outcome.ok, v |-> outcome.v]

InitMutexVars ==
  /\ mutex = AsyncMutex_new
  /\ pc = [t \in Tasks |-> "idle"]
  /\ acq = [t \in Tasks |-> [ret |-> "undefined", st |-> "pending"]]
  /\ acqOrder = <<>>
  /\ enterOrder = <<>>
  /\ dos = [t \in Tasks |-> NoDo]
  /\ freeReleases = <<>>

\* Task t calls lock.acquire() (itself, or as the first step of do) and
\* awaits what it returns.
CallAcquire(t) ==
  /\ pc[t] = "idle"
  /\ Len(acqOrder) < MaxAcquires
  /\ LET r == AsyncMutex_acquire(mutex, t) IN
       /\ mutex' = r.m
       /\ acq' = [acq EXCEPT ![t] = [ret |-> r.ret, st |-> "pending"]]
  /\ pc' = [pc EXCEPT ![t] = "awaiting"]
  /\ acqOrder' = Append(acqOrder, t)
  /\ UNCHANGED <<enterOrder, freeReleases>>
  /\ UNCHANGED <<queueVars, serverVars, streamVars, portVars, helperVars>>

\* Task t calls lock.acquire() and awaits what it returns.
Acquire(t) ==
  /\ CallAcquire(t)
  /\ dos' = [dos EXCEPT ![t] = NoDo]

\* Task t calls lock.do(action): do calls acquire() and awaits it.
Do(t) ==
  /\ CallAcquire(t)
  /\ dos' = [dos EXCEPT ![t] = [NoDo EXCEPT !.mode = "do", !.st = "pending"]]

\* The await of task t completes: it awaited no Promise, or its Promise has
\* been resolved.  The task is now inside its critical section.
AwaitDone(t) == acq[t].ret = "undefined" \/ acq[t].st = "resolved"

\* Task t enters its critical section; within do, action() is called.
Enter(t) ==
  /\ pc[t] = "awaiting"
  /\ AwaitDone(t)
  /\ pc' = [pc EXCEPT ![t] = "critical"]
  /\ enterOrder' = Append(enterOrder, t)
  /\ UNCHANGED <<mutex, acq, acqOrder, dos, freeReleases>>
  /\ UNCHANGED <<queueVars, serverVars, streamVars, portVars, helperVars>>

\* lock.release() is called: the new fields, and the Promise of the awaiter
\* whose callback is called becomes resolved.
CallRelease ==
  LET r == AsyncMutex_release(mutex) IN
    /\ mutex' = r.m
    /\ acq' = [u \in Tasks |->
                 IF \E i \in 1..Len(r.callback) : r.callback[i] = u
                 THEN [acq[u] EXCEPT !.st = "resolved"]
                 ELSE acq[u]]

\* Task t, at the end of its critical section, calls lock.release().
Release(t) ==
  /\ pc[t] = "critical"
  /\ dos[t].mode = "plain"
  /\ CallRelease
  /\ pc' = [pc EXCEPT ![t] = "idle"]
  /\ UNCHANGED <<acqOrder, enterOrder, dos, freeReleases>>
  /\ UNCHANGED <<queueVars, serverVars, streamVars, portVars, helperVars>>

\* The action of task t's do() call ends with outcome: do resumes, runs its
\* finally clause and settles its own Promise.
DoFinish(t, outcome) ==
  /\ pc[t] = "critical"
  /\ dos[t].mode = "do"
  /\ LET f == AsyncMutex_do_finish(outcome) IN
       /\ IF f.release THEN CallRelease ELSE UNCHANGED <<mutex, acq>>
       /\ dos' = [dos EXCEPT ![t] =
            [mode |-> "do", st |-> IF f.ok THEN "resolved" ELSE "rejected",
             v |-> f.v, releases |-> dos[t].releases + (IF f.release THEN 1 ELSE 0),
             action |-> outcome]]
  /\ pc' = [pc EXCEPT ![t] = "idle"]
  /\ UNCHANGED <<acqOrder, enterOrder, freeReleases>>
  /\ UNCHANGED <<queueVars, serverVars, streamVars, portVars, helperVars>>

\* A task that does not hold the lock calls lock.release() while the mutex
\* is free.
FreeRelease(t) ==
  /\ pc[t] = "idle"
  /\ mutex.held = 0
  /\ Len(freeReleases) < MaxFreeReleases
  /\ CallRelease
  /\ freeReleases' = Append(freeReleases, Len(acqOrder))
  /\ UNCHANGED <<pc, acqOrder, enterOrder, dos>>
  /\ UNCHANGED <<queueVars, serverVars, streamVars, portVars, helperVars>>

NextMutex ==
  \/ \E t \in Tasks : Acquire(t)
  \/ \E t \in Tasks : Enter(t)
  \/ \E t \in Tasks : Release(t)

\* The tasks that also use do() and that call release() on a free mutex.
DoTasks == 1..NumDoTasks

NextMutexDo ==
  \/ \E t \in DoTasks : Len(acqOrder) < MaxDoCalls /\ Acquire(t)
  \/ \E t \in DoTasks : Len(acqOrder) < MaxDoCalls /\ Do(t)
  \/ \E t \in DoTasks : Enter(t)
  \/ \E t \in DoTasks : Release(t)
  \/ \E t \in DoTasks, outcome \in ActionOutcomes : DoFinish(t, outcome)
  \/ \E t \in DoTasks : FreeRelease(t)

\* Code that does not hold the lock calls lock.release(), whatever the state
\* of the mutex: release() does not verify ownership.
StrayRelease ==
  /\ Len(freeReleases) < MaxFreeReleases
  /\ CallRelease
  /\ freeReleases' = Append(freeReleases, Len(acqOrder))
  /\ UNCHANGED <<pc, acqOrder, enterOrder, dos>>
  /\ UNCHANGED <<queueVars, serverVars, streamVars, portVars, helperVars>>

\* Any sequence of acquire() and release() calls.
NextMutexAny ==
  \/ \E t \in DoTasks : Len(acqOrder) < MaxDoCalls /\ Acquire(t)
  \/ \E t \in DoTasks : Enter(t)
  \/ \E t \in DoTasks : Release(t)
  \/ StrayRelease

(***************************************************************************)
(* Properties of AsyncMutex (checked under SpecMutex).                     *)
(***************************************************************************)
InCritical == {t \in Tasks : pc[t] = "critical"}

\* C1: with any number of tasks that each await acquire(), run a critical
\* section and call release() once, at most one task is inside its critical
\* section in every reachable state.
C1_MutualExclusion == Cardinality(InCritical) <= 1

C1_Witness ==
  /\ Cardinality(InCritical) = 1
  /\ Len(mutex.awaiters) >= 2
  /\ Len(enterOrder) >= 2

\* C2: tasks enter the critical section in the order of their acquire()
\* calls: the sequence of entries is always a prefix of the sequence of calls.
C2_GrantedInCallOrder ==
  /\ Len(enterOrder) <= Len(acqOrder)
  /\ \A i \in 1..Len(enterOrder) : enterOrder[i] = acqOrder[i]

C2_Witness ==
  /\ Len(enterOrder) >= 3
  /\ Cardinality({enterOrder[i] : i \in 1..Len(enterOrder)}) >= 3
  /\ \E i \in 1..Len(enterOrder) - 1 : enterOrder[i] > enterOrder[i + 1]

(***************************************************************************)
(* Properties of do() and of release() on a free mutex (checked under      *)
(* SpecMutexDo).                                                           *)
(***************************************************************************)
\* C24: do(action) releases the lock exactly once whether action resolves
\* or rejects, never before action has ended; the promise do returns
\* settles with the value or the error of action unchanged; and the step in
\* which do ends hands the lock to the first waiter, after a failed action
\* too.
C24_DoReleasesOnceAndPassesOutcome ==
  /\ [](\A t \in Tasks : dos[t].mode = "do" =>
          IF dos[t].st = "pending"
          THEN dos[t].releases = 0
          ELSE /\ dos[t].releases = 1
               /\ dos[t].st = (IF dos[t].action.ok THEN "resolved" ELSE "rejected")
               /\ dos[t].v = dos[t].action.v)
  /\ [][\A t \in Tasks :
          (dos[t].st = "pending" /\ dos'[t].st # "pending") =>
            /\ pc[t] = "critical"
            /\ mutex'.held = mutex.held - 1
            /\ mutex.awaiters # <<>> =>
                 /\ acq'[Head(mutex.awaiters)].st = "resolved"
                 /\ mutex'.awaiters = Tail(mutex.awaiters)]_vars

C24_Witness ==
  \E t, u \in Tasks :
    /\ t # u
    /\ acqOrder = <<t, u>>
    /\ dos[t].mode = "do" /\ dos[t].st = "rejected" /\ dos[t].v = "error"
    /\ dos[u].mode = "do" /\ acq[u].ret = "promise"
    /\ pc[u] = "critical"

\* C25: a release() call on a free mutex changes nothing (the mutex stays
\* free with no waiters and no Promise is resolved), a free mutex never has
\* waiters, and an acquire() call on a free mutex is granted at once.
C25_ReleaseOnFreeMutexIsNoOp ==
  /\ [](mutex.held = 0 => mutex.awaiters = <<>>)
  /\ [][Len(freeReleases') > Len(freeReleases) =>
          /\ mutex' = mutex
          /\ mutex'.held = 0 /\ mutex'.awaiters = <<>>
          /\ acq' = acq /\ pc' = pc]_vars
  /\ [][(Len(acqOrder') > Len(acqOrder) /\ mutex.held = 0) =>
          LET t == acqOrder'[Len(acqOrder')] IN
            /\ acq'[t].ret = "undefined"
            /\ mutex'.held = 1 /\ mutex'.awaiters = <<>>]_vars

\* release() was called on the mutex before any acquire() and again after
\* its last holder had released it, and the acquire() call that followed was
\* granted without waiting.
C25_Witness ==
  /\ Len(freeReleases) = 2
  /\ freeReleases[1] = 0
  /\ freeReleases[2] >= 1
  /\ Len(acqOrder) = freeReleases[2] + 1
  /\ LET t == acqOrder[Len(acqOrder)] IN
       /\ acq[t].ret = "undefined"
       /\ pc[t] = "critical"

(***************************************************************************)
(* Properties of AsyncQueue (checked under SpecQueue).                     *)
(***************************************************************************)
Settled(p, v) == p.st = "resolved" /\ p.val = v

Failed(p) == p.st = "rejected" /\ p.err = QueueClosed

\* The number of stored items the call history gives the i-th take() call:
\* the items added while the queue was open, less the earlier take() calls.
StoredAtCall(i) == takes[i].addsAtCall - (i - 1)

\* C3: items added to an open queue and not yet taken are returned by the
\* next take() calls in the order they were added; such a take() is resolved
\* from the stored items and registers no awaiter.
C3_TakeReturnsStoredItemsInOrder ==
  \A i \in 1..Len(takes) :
    StoredAtCall(i) > 0 =>
      /\ ~takes[i].waited
      /\ Settled(takes[i], OpenAdds(adds)[i])

C3_Witness ==
  \E i, j \in 1..Len(takes) :
    /\ i < j
    /\ StoredAtCall(i) >= 2
    /\ StoredAtCall(j) >= 1
    /\ takes[i].st = "resolved" /\ takes[j].st = "resolved"
    /\ takes[i].val # takes[j].val

\* C4: while close() has never been called, the i-th take() receives the i-th
\* added item for every interleaving of the calls, a take() with no item yet
\* stays pending, and an item added while a take() is pending is handed to the
\* oldest pending take() and is not stored (length() stays 0).
C4_IthTakeGetsIthAdd ==
  closeCalls = 0 =>
    /\ \A i \in 1..Len(takes) :
         IF i <= Len(adds)
         THEN Settled(takes[i], adds[i].item)
         ELSE takes[i].st = "pending"
    /\ AsyncQueue_length(queue) = Max(0, Len(adds) - Len(takes))
    /\ Len(queue.awaiters) = Max(0, Len(takes) - Len(adds))

C4_Witness ==
  /\ closeCalls = 0
  /\ Len(takes) >= 3
  /\ takes[1].waited /\ takes[2].waited
  /\ takes[1].st = "resolved" /\ takes[2].st = "resolved"
  /\ takes[1].val # takes[2].val
  /\ takes[3].st = "pending"
  /\ AsyncQueue_length(queue) = 0

\* C5: close() rejects every take() pending at that moment with the
\* queue-closed error and leaves no awaiter registered: once close() has been
\* called no take() is pending, and on a take() that was rejected no second
\* settlement (by a later add()) is ever attempted.
C5_CloseRejectsPendingTakes ==
  closeCalls > 0 =>
    /\ queue.awaiters = <<>>
    /\ \A i \in 1..Len(takes) :
         /\ takes[i].st # "pending"
         /\ (takes[i].waited /\ i > Len(OpenAdds(adds))) => Failed(takes[i])
         /\ takes[i].st = "rejected" => Failed(takes[i]) /\ takes[i].nSettle = 1

C5_Witness ==
  /\ closeCalls > 0
  /\ \E i, j \in 1..Len(takes) :
       /\ i < j
       /\ takes[i].waited /\ Failed(takes[i])
       /\ takes[j].waited /\ Failed(takes[j])
  /\ \E k \in 1..Len(adds) : adds[k].afterClose

\* C6: once close() has been called the queue stays closed for ever; a take()
\* called after it returns the items stored before the close, in order, and
\* fails with the queue-closed error as soon as none is left.
C6_ClosedQueueDrainsThenFails ==
  closeCalls > 0 =>
    /\ queue.closed
    /\ \A i \in 1..Len(takes) :
         takes[i].afterClose =>
           /\ ~takes[i].waited
           /\ IF i <= Len(OpenAdds(adds))
              THEN Settled(takes[i], OpenAdds(adds)[i])
              ELSE Failed(takes[i])

C6_Witness ==
  /\ closeCalls >= 2
  /\ \E i, j \in 1..Len(takes) :
       /\ i < j
       /\ takes[i].afterClose /\ takes[i].st = "resolved"
       /\ takes[j].afterClose /\ Failed(takes[j])
  /\ \E k \in 1..Len(adds) : adds[k].afterClose

\* C7: add() on a closed queue changes nothing (stored items, length, awaiter
\* list, every Promise handed out), and no take() ever returns its item: every
\* value a take() returns is one that was added while the queue was open.
AddCalled == Len(adds') = Len(adds) + 1

C7_AddOnClosedQueueIsNoOp ==
  /\ [][(AddCalled /\ closeCalls > 0) =>
          /\ queue' = queue
          /\ AsyncQueue_length(queue') = AsyncQueue_length(queue)
          /\ takes' = takes]_vars
  /\ [](\A i \in 1..Len(takes) :
          takes[i].st = "resolved" =>
            /\ i <= Len(OpenAdds(adds))
            /\ takes[i].val = OpenAdds(adds)[i])

C7_Witness ==
  /\ \E k \in 1..Len(adds) :
       /\ adds[k].afterClose
       /\ \E m \in 1..Len(adds) : ~adds[m].afterClose /\ adds[m].item # adds[k].item
  /\ \E i, j \in 1..Len(takes) :
       /\ takes[i].afterClose /\ takes[i].st = "resolved"
       /\ takes[j].afterClose /\ Failed(takes[j])

\* C8: in every reachable state the stored items and the pending awaiters are
\* not both non-empty.
C8_ItemsOrAwaitersEmpty ==
  ~(Len(queue.items) > 0 /\ Len(queue.awaiters) > 0)

C8_Witness ==
  /\ Len(queue.awaiters) >= 2
  /\ Len(adds) >= 1
  /\ closeCalls = 0

(***************************************************************************)
(* TestHttpServer: registration of handlers and the "request" listener.    *)
(*                                                                         *)
(* Strings whose letter case matters (HTTP methods) are sequences of       *)
(* one-character strings, so that toLowerCase is computed letter by        *)
(* letter.                                                                 *)
(***************************************************************************)
LowerChar(c) ==
  CASE c = "G" -> "g" [] c = "E" -> "e" [] c = "T" -> "t"
    [] c = "P" -> "p" [] c = "O" -> "o" [] c = "S" -> "s"
    [] c = "U" -> "u" [] c = "R" -> "r"
    [] c = "C" -> "c" [] c = "N" -> "n" [] c = "A" -> "a" [] c = "H" -> "h"
    [] OTHER -> c

toLowerCase(str) == [i \in 1..Len(str) |-> LowerChar(str[i])]

\* The methods a test passes to forMethodAndPath, and the paths used.
RegisteredMethods == {<<"g", "e", "t">>, <<"G", "E", "T">>, <<"p", "o", "s", "t">>}
Paths == {"/path1", "/path2"}

\* The requests a client sends, as Node's parser reports them: the method in
\* upper case, the url, and req.headers as a set of name/value pairs.
ClientRequests ==
  {[method |-> <<"G", "E", "T">>, url |-> "/path1", headers |-> {}],
   [method |-> <<"G", "E", "T">>, url |-> "/path2",
    headers |-> {<<"header-name", "header-value">>}],
   [method |-> <<"P", "O", "S", "T">>, url |-> "/path1",
    headers |-> {<<"header-name", "header-value">>}],
   [method |-> <<"P", "U", "T">>, url |-> "/path2", headers |-> {}]}

\* The requests a client sends to a proxy server: a CONNECT to host:port, and
\* plain requests whose request line holds the absolute URL of the target.
\* target is the URL the client means to reach.
CONNECT == <<"C", "O", "N", "N", "E", "C", "T">>

ProxyRequests ==
  {[method |-> CONNECT, url |-> "localhost:8000", headers |-> {},
    target |-> "http://localhost:8000"],
   [method |-> <<"G", "E", "T">>, url |-> "http://localhost:8000",
    headers |-> {<<"host", "localhost">>}, target |-> "http://localhost:8000"],
   [method |-> <<"P", "O", "S", "T">>, url |-> "http://localhost:8000/path1",
    headers |-> {<<"header-name", "header-value">>},
    target |-> "http://localhost:8000/path1"],
   [method |-> <<"P", "A", "T", "C", "H">>, url |-> "http://localhost:8000/path1",
    headers |-> {}, target |-> "http://localhost:8000/path1"]}

\* The paths a test registers on a proxy server.
ProxyPaths == {"http://localhost:8000", "http://localhost:8000/path1"}

\* What the target server answers to a relayed request.
TargetResponses ==
  {[made |-> TRUE, status |-> 201, headers |-> {}, body |-> <<>>],
   [made |-> TRUE, status |-> 200, headers |-> {<<"content-type", "text/plain">>},
    body |-> <<"hello">>]}

NoTargetResponse == [made |-> FALSE, status |-> 0, headers |-> {}, body |-> <<>>]

\* The outbound request of the proxy for a request: none yet.
NoOutbound ==
  [made |-> FALSE, method |-> <<>>, url |-> "", headers |-> {}, body |-> <<>>,
   response |-> NoTargetResponse, relayed |-> NoTargetResponse]

\* A handler made by TestHttpHandlers.respond(status).  Every handler a test
\* makes is an object of its own (id); as in the repository's tests each one
\* answers with a status of its own (200, 201, 202, ...).
RespondHandler(id) == [id |-> id, status |-> 199 + id]

\* this.defaultHandler = TestHttpHandlers.respond(404) in the constructor.
InitialDefaultHandler == [id |-> 0, status |-> 404]

NewResponse == [status |-> 0, ended |-> FALSE, invoked |-> <<>>]

\* respond(status): res.writeHead(status, headers); res.end().  The handler
\* that ran is noted on the response.  A response that has already ended
\* takes no head any more (writeHead throws).
TestHttpHandlers_respond(h, response) ==
  IF response.ended
  THEN [response EXCEPT !.invoked = Append(@, h.id)]
  ELSE [status |-> h.status, ended |-> TRUE,
        invoked |-> Append(response.invoked, h.id)]

\* The closure forMethodAndPath stores: does it take the request?
MatcherMatches(m, req) ==
  req.method = toLowerCase(m.method) /\ req.path = m.path

TestHttpServer_forMethodAndPath_push(ms, method, path, handler) ==
  Append(ms, [method |-> method, path |-> path, handler |-> handler])

\* this.matchers.unshift(closure)
TestHttpServer_forMethodAndPath_dropped(ms, method, path, handler) == ms

TestHttpServer_forMethodAndPath(ms, method, path, handler) ==
  <<[method |-> method, path |-> path, handler |-> handler]>> \o ms

TestHttpServer_byDefault_keepsOld(dh, handler) == dh

\* this.defaultHandler = handler
TestHttpServer_byDefault(dh, handler) == handler

\* for (const matcher of this.matchers) if (matcher(reqWrapper, res)) return;
\* if (this.defaultHandler) this.defaultHandler(reqWrapper, res);
\* gives the handlers the listener invokes for req, in order.
RECURSIVE HandlersInvoked(_, _, _)
HandlersInvoked(ms, dh, req) ==
  IF ms = <<>> THEN <<dh>>
  ELSE IF MatcherMatches(Head(ms), req) THEN <<Head(ms).handler>>
  ELSE HandlersInvoked(Tail(ms), dh, req)

RECURSIVE RunHandlers(_, _)
RunHandlers(hs, response) ==
  IF hs = <<>> THEN response
  ELSE RunHandlers(Tail(hs), TestHttpHandlers_respond(Head(hs), response))

HasBody_postOnly(method) == method = <<"p", "o", "s", "t">>

\* Methods whose body preprocessRequest reads in full before going on.
HasBody(method) ==
  method \in {<<"p", "o", "s", "t">>, <<"p", "u", "t">>,
              <<"r", "e", "p", "o", "r", "t">>}

\* A text is the sequence of the pieces it was put together from; s + t is
\* s \o t.  A request body arrives in pieces, one "data" event each.
NoBody == [defined |-> FALSE, text |-> <<>>]
Bodies == {<<"this is ", "the content">>}

\* The methods of the requests that are sent with a body.
SentWithBody(method) ==
  toLowerCase(method) \in {<<"p", "o", "s", "t">>, <<"p", "u", "t">>,
                           <<"r", "e", "p", "o", "r", "t">>,
                           <<"p", "a", "t", "c", "h">>}

\* readAllStream: stream.on("data", (data) => { result += data; })
readAllStream_data(result, data) == result \o <<data>>

\* readAllStream: stream.on("end", () => resolve(result))
readAllStream_end(result) == [defined |-> TRUE, text |-> result]

\* preprocessRequest after the body, if any, has been read:
\*   reqWrapper = { method, body, path: req.url, headers: req.headers }
TestHttpRequest(conn, body) ==
  [method |-> toLowerCase(conn.method), body |-> body, path |-> conn.url,
   headers |-> conn.headers]

NoWrapper == [method |-> <<>>, body |-> NoBody, path |-> "", headers |-> {}]

CountAndAdd_addFirst(cnt, q, r) ==
  LET a == AsyncQueue_add(q, r) IN
    [count |-> cnt + 1, countAtAdd |-> cnt, addedOpen |-> ~q.closed,
     q |-> a.q, settle |-> a.settle]

\* this.count++; this.requests.add(reqWrapper);  countAtAdd is the value of
\* this.count when add is called, addedOpen whether the queue was open then.
CountAndAdd(cnt, q, r) ==
  LET c1 == cnt + 1
      a == AsyncQueue_add(q, r)
  IN [count |-> c1, countAtAdd |-> c1, addedOpen |-> ~q.closed,
      q |-> a.q, settle |-> a.settle]

RequestListener_handlers_alsoInProxy(isProxy, ms, dh, req) ==
  HandlersInvoked(ms, dh, req)

\* if (proxy) { ...relay... } else { ...matchers, defaultHandler... }
\* gives the handlers the "request" listener invokes.
RequestListener_handlers(isProxy, ms, dh, req) ==
  IF isProxy THEN <<>> ELSE HandlersInvoked(ms, dh, req)

\* http.request({ ...parsedUrl, method: req.method, headers: req.headers },
\* ...); req.pipe(proxyReq): the outbound request.  The pipe relays the
\* pieces of the body that the stream of req has not yet emitted.
RequestListener_relay(conn) ==
  [made |-> TRUE, method |-> conn.method, url |-> conn.url,
   headers |-> conn.headers,
   body |-> SubSeq(conn.sent, conn.delivered + 1, Len(conn.sent)),
   response |-> NoTargetResponse, relayed |-> NoTargetResponse]

\* (proxyRes) => { res.writeHead(proxyRes.statusCode, proxyRes.headers);
\*                 proxyRes.pipe(res); }
RequestListener_relayResponse(proxyRes) ==
  [made |-> TRUE, status |-> proxyRes.status, headers |-> proxyRes.headers,
   body |-> proxyRes.body]

ConnectListener_path_asReceived(path) == path

\* reqWrapper.path = "http://" + reqWrapper.path
ConnectListener_path(path) == "http://" \o path

HandlersMade == Len(registered) + Len(defaults)

\* The calls made on the server so far and the requests sent to it.
ServerCalls ==
  HandlersMade + Len(conns) + Len(nextReqs) + (IF listening THEN 0 ELSE 1)

InitServerVars ==
  /\ proxy \in BOOLEAN
  /\ requests = AsyncQueue_new
  /\ responses = <<>>
  /\ matchers = <<>>
  /\ defaultHandler = InitialDefaultHandler
  /\ count = 0
  /\ listening = TRUE
  /\ conns = <<>>
  /\ wrappers = <<>>
  /\ res = <<>>
  /\ nextReqs = <<>>
  /\ registered = <<>>
  /\ defaults = <<>>
  /\ outbound = <<>>

\* Some listener has captured its request and not yet resumed.  Its
\* continuation after "await this.preprocessRequest(req)" is a microtask
\* queued in the same turn of the event loop, ahead of the reactions to the
\* take() Promise that add() settled, so it runs before any other callback
\* and before any test code.
ListenerResuming == \E r \in 1..Len(conns) : conns[r].stage = "captured"

\* The test calls server.forMethodAndPath(method, path, respond(...)).
ForMethodAndPath(method, path) ==
  /\ ~ListenerResuming
  /\ ServerCalls < MaxServerCalls
  /\ LET h == RespondHandler(HandlersMade + 1) IN
       /\ matchers' = TestHttpServer_forMethodAndPath(matchers, method, path, h)
       /\ registered' =
            Append(registered, [method |-> method, path |-> path, handler |-> h])
  /\ UNCHANGED <<proxy, requests, responses, defaultHandler, count, listening,
                 conns, wrappers, res, nextReqs, defaults,
                 outbound>>
  /\ UNCHANGED <<queueVars, mutexVars, streamVars, portVars, helperVars>>

\* The test calls server.byDefault(respond(...)).
ByDefault ==
  /\ ~ListenerResuming
  /\ ServerCalls < MaxServerCalls
  /\ LET h == RespondHandler(HandlersMade + 1) IN
       /\ defaultHandler' = TestHttpServer_byDefault(defaultHandler, h)
       /\ defaults' = Append(defaults, h)
  /\ UNCHANGED <<proxy, requests, responses, matchers, count, listening,
                 conns, wrappers, res, nextReqs, registered,
                 outbound>>
  /\ UNCHANGED <<queueVars, mutexVars, streamVars, portVars, helperVars>>

\* The tail of preprocessRequest for request r of cs, once its body is known:
\* build the wrapper, this.count++, this.requests.add(reqWrapper).  The queue
\* holds the wrapper object itself, here its index r.
Capture(cs, ws, r, body) ==
  LET c == CountAndAdd(count, requests, r) IN
    /\ wrappers' = [ws EXCEPT ![r] = TestHttpRequest(cs[r], body)]
    /\ count' = c.count
    /\ requests' = c.q
    /\ nextReqs' = ApplySettles(nextReqs, c.settle)
    /\ conns' = [cs EXCEPT ![r].stage = "captured",
                           ![r].countAtAdd = c.countAtAdd,
                           ![r].addedOpen = c.addedOpen]

\* Node emits "request" (on a proxy server "connect" for a CONNECT request):
\* the listener starts preprocessRequest, which either
\* suspends in readAllStream (a method with a body) or captures the request
\* at once; the listener then suspends in its own await.  sent is the body
\* the client sends, delivered the number of its pieces the stream has
\* emitted, result the text readAllStream has put together so far.
Request(method, url, headers, body) ==
  /\ ~ListenerResuming
  /\ listening
  /\ ServerCalls < MaxServerCalls
  /\ LET r == Len(conns) + 1
         conn == [method |-> method, url |-> url, headers |-> headers,
                  sent |-> body, delivered |-> 0, result |-> <<>>,
                  stage |-> "reading",
                  countAtAdd |-> 0, addedOpen |-> FALSE,
                  regsAtDispatch |-> 0, defaultsAtDispatch |-> 0]
     IN
       /\ res' = Append(res, NewResponse)
       /\ outbound' = Append(outbound, NoOutbound)
       /\ IF HasBody(toLowerCase(method))
          THEN /\ conns' = Append(conns, conn)
               /\ wrappers' = Append(wrappers, NoWrapper)
               /\ UNCHANGED <<count, requests, nextReqs>>
          ELSE Capture(Append(conns, conn), Append(wrappers, NoWrapper), r, NoBody)
  /\ UNCHANGED <<proxy, responses, matchers, defaultHandler, listening,
                 registered, defaults>>
  /\ UNCHANGED <<queueVars, mutexVars, streamVars, portVars, helperVars>>

\* The body stream of request r emits "data" with the next piece.
BodyData(r) ==
  /\ ~ListenerResuming
  /\ conns[r].stage = "reading"
  /\ conns[r].delivered < Len(conns[r].sent)
  /\ conns' = [conns EXCEPT
       ![r].delivered = @ + 1,
       ![r].result = readAllStream_data(@, conns[r].sent[conns[r].delivered + 1])]
  /\ UNCHANGED <<proxy, requests, responses, matchers, defaultHandler, count,
                 listening, wrappers, res, nextReqs, registered, defaults,
                 outbound>>
  /\ UNCHANGED <<queueVars, mutexVars, streamVars, portVars, helperVars>>

\* The body stream of request r emits "end", after the last piece:
\* readAllStream resolves and preprocessRequest captures the request.
BodyEnd(r) ==
  /\ ~ListenerResuming
  /\ conns[r].stage = "reading"
  /\ conns[r].delivered = Len(conns[r].sent)
  /\ Capture(conns, wrappers, r, readAllStream_end(conns[r].result))
  /\ UNCHANGED <<proxy, responses, matchers, defaultHandler, listening, res,
                 registered, defaults,
                 outbound>>
  /\ UNCHANGED <<queueVars, mutexVars, streamVars, portVars, helperVars>>

\* The "request" listener resumes for request r after preprocessRequest:
\* this.responses.push(res), then the proxy relay or the handler.  The
\* request notes how many registrations had been made by then.
Dispatch(r) ==
  /\ conns[r].stage = "captured"
  /\ conns[r].method # CONNECT
  /\ responses' = Append(responses, r)
  /\ res' = [res EXCEPT ![r] =
       RunHandlers(RequestListener_handlers(proxy, matchers, defaultHandler,
                                            wrappers[r]), @)]
  /\ IF proxy
     THEN /\ conns' = [conns EXCEPT ![r].stage = "proxied"]
          /\ outbound' = [outbound EXCEPT ![r] = RequestListener_relay(conns[r])]
     ELSE /\ conns' = [conns EXCEPT ![r].stage = "handled",
                                    ![r].regsAtDispatch = Len(registered),
                                    ![r].defaultsAtDispatch = Len(defaults)]
          /\ UNCHANGED outbound
  /\ UNCHANGED <<proxy, requests, matchers, defaultHandler, count, listening,
                 wrappers, nextReqs, registered, defaults>>
  /\ UNCHANGED <<queueVars, mutexVars, streamVars, portVars, helperVars>>

\* The "connect" listener of a proxy server resumes for request r after
\* preprocessRequest: it rewrites the path of the wrapper it has already put
\* on the request queue, then opens the tunnel to the target.
Tunnel(r) ==
  /\ conns[r].stage = "captured"
  /\ conns[r].method = CONNECT
  /\ wrappers' = [wrappers EXCEPT ![r].path = ConnectListener_path(@)]
  /\ conns' = [conns EXCEPT ![r].stage = "tunnelled"]
  /\ UNCHANGED <<proxy, requests, responses, matchers, defaultHandler, count,
                 listening, res, nextReqs, registered, defaults, outbound>>
  /\ UNCHANGED <<queueVars, mutexVars, streamVars, portVars, helperVars>>

\* The target answers the outbound request of request r with proxyRes: the
\* callback given to http.request writes its head to res and pipes it.
TargetResponds(r, proxyRes) ==
  /\ ~ListenerResuming
  /\ listening
  /\ conns[r].stage = "proxied"
  /\ ~outbound[r].response.made
  /\ outbound' = [outbound EXCEPT
       ![r].response = proxyRes,
       ![r].relayed = RequestListener_relayResponse(proxyRes)]
  /\ res' = [res EXCEPT ![r].status = proxyRes.status, ![r].ended = TRUE]
  /\ UNCHANGED <<proxy, requests, responses, matchers, defaultHandler, count,
                 listening, conns, wrappers, nextReqs, registered, defaults>>
  /\ UNCHANGED <<queueVars, mutexVars, streamVars, portVars, helperVars>>

\* The test calls server.nextRequest(): this.requests.take().  The Promise
\* notes whether the call was made after closeAndWait().
NextRequest ==
  /\ ~ListenerResuming
  /\ ServerCalls < MaxServerCalls
  /\ LET me == Len(nextReqs) + 1
         t == AsyncQueue_take(requests, me)
     IN
       /\ requests' = t.q
       /\ nextReqs' = ApplySettles(
            Append(nextReqs, [st |-> "pending", val |-> NoValue, err |-> "",
                              nSettle |-> 0, afterClose |-> ~listening]),
            t.settle)
  /\ UNCHANGED <<proxy, responses, matchers, defaultHandler, count, listening,
                 conns, wrappers, res, registered, defaults,
                 outbound>>
  /\ UNCHANGED <<queueVars, mutexVars, streamVars, portVars, helperVars>>

TestHttpServer_closeRequests_skipped(q) == [q |-> q, settle |-> <<>>]

\* closeAndWait: this.requests.close()
TestHttpServer_closeRequests(q) == AsyncQueue_close(q)

\* The test calls server.closeAndWait() (or close()): every response pushed
\* so far is ended, the request queue is closed, the socket stops listening.
CloseAndWait ==
  /\ ~ListenerResuming
  /\ listening
  /\ ServerCalls < MaxServerCalls
  /\ LET c == TestHttpServer_closeRequests(requests) IN
       /\ requests' = c.q
       /\ nextReqs' = ApplySettles(nextReqs, c.settle)
  /\ res' = [r \in 1..Len(res) |->
               IF \E k \in 1..Len(responses) : responses[k] = r
               THEN [res[r] EXCEPT !.ended = TRUE]
               ELSE res[r]]
  /\ listening' = FALSE
  /\ UNCHANGED <<proxy, responses, matchers, defaultHandler, count, conns,
                 wrappers, registered, defaults,
                 outbound>>
  /\ UNCHANGED <<queueVars, mutexVars, streamVars, portVars, helperVars>>

\* The requests sent to the server and the paths registered on it: those
\* of its mode.
RequestsSent ==
  IF proxy
  THEN {[method |-> c.method, url |-> c.url, headers |-> c.headers] :
          c \in ProxyRequests}
  ELSE ClientRequests

PathsRegistered == IF proxy THEN ProxyPaths ELSE Paths

NextServer ==
  \/ \E method \in RegisteredMethods, path \in PathsRegistered :
       ForMethodAndPath(method, path)
  \/ ByDefault
  \/ \E c \in RequestsSent :
       \E body \in (IF SentWithBody(c.method) THEN Bodies ELSE {<<>>}) :
         Request(c.method, c.url, c.headers, body)
  \/ \E r \in 1..Len(conns) : BodyData(r)
  \/ \E r \in 1..Len(conns) : BodyEnd(r)
  \/ \E r \in 1..Len(conns) : Dispatch(r)
  \/ \E r \in 1..Len(conns) : Tunnel(r)
  \/ \E r \in 1..Len(conns), proxyRes \in TargetResponses :
       TargetResponds(r, proxyRes)
  \/ NextRequest
  \/ CloseAndWait

(***************************************************************************)
(* TestHttpHandlers.chunkedStream and sseStream: one streaming handler,    *)
(* the queue it reads, and the response of the one request it serves.      *)
(* A text is the sequence of the pieces it was put together from.          *)
(***************************************************************************)
NoHandler == [made |-> FALSE, status |-> 0, headers |-> {}]

\* The status and headers a test gives to chunkedStream, and the chunks it adds.
StreamHeads ==
  {[status |-> 200, headers |-> {<<"content-type", "text/plain">>}],
   [status |-> 201, headers |-> {}]}
Chunks == {<<"thing">>, <<"+stuff">>}

\* The calls a handler makes on its http.ServerResponse.
WriteHead(status, headers) ==
  [op |-> "writeHead", status |-> status, headers |-> headers, chunk |-> <<>>]
Write(chunk) == [op |-> "write", status |-> 0, headers |-> {}, chunk |-> chunk]
End == [op |-> "end", status |-> 0, headers |-> {}, chunk |-> <<>>]

chunkedStream_invoke_chunkFirst(h) == <<Write(<<>>), WriteHead(h.status, h.headers)>>

\* chunkedStream: res.writeHead(status, headers); res.write("");
chunkedStream_invoke(h) == <<WriteHead(h.status, h.headers), Write(<<>>)>>

\* chunkedStream, after "await chunkQueue.take()" settled with p: res.write(chunk)
\* and another round of the loop, or res.end() and break.
chunkedStream_resume(p) ==
  IF p.st = "resolved"
  THEN [call |-> Write(p.val), again |-> TRUE]
  ELSE [call |-> End, again |-> FALSE]

\* q.take() by a caller that keeps its Promises in ps.
TakeFrom(q, ps) ==
  LET t == AsyncQueue_take(q, Len(ps) + 1) IN
    [q |-> t.q, ps |-> ApplySettles(Append(ps, NewPromise), t.settle)]

\* A field of an SSEItem that is not there, and what "+" makes of a value.
Undefined == "<not defined>"
Null == "<null>"
StringOf(x) == IF x = Undefined THEN "undefined" ELSE x
Truthy(x) == x # Undefined /\ x # Null /\ x # ""

\* The items a test adds to the event queue.
SSEItems ==
  {[comment |-> "hi", type |-> Undefined, id |-> Undefined, data |-> Undefined],
   [comment |-> Undefined, type |-> "put", id |-> Undefined, data |-> "stuff"],
   [comment |-> Undefined, type |-> "put", id |-> "7", data |-> "stuff"],
   [comment |-> Undefined, type |-> "put", id |-> "", data |-> "stuff"],
   [comment |-> Undefined, type |-> Undefined, id |-> Undefined, data |-> "stuff"],
   [comment |-> "hi", type |-> "put", id |-> Undefined, data |-> "stuff"]}

sseStream_chunk_commentKept(item) ==
  (IF item.comment # Undefined THEN <<":", item.comment, "\n">> ELSE <<>>)
  \o (IF item.data # Undefined
      THEN <<"event: ", StringOf(item.type), "\n">>
           \o (IF Truthy(item.id) THEN <<"id: ", item.id>> ELSE <<>>)
           \o <<"data: ", item.data, "\n\n">>
      ELSE <<>>)

\* sseStream: the chunk made of one item.
sseStream_chunk(item) ==
  LET c0 == <<>>
      c1 == IF item.comment # Undefined THEN <<":", item.comment, "\n">> ELSE c0
  IN IF item.data # Undefined
     THEN <<"event: ", StringOf(item.type), "\n">>
          \o (IF Truthy(item.id) THEN <<"id: ", item.id>> ELSE <<>>)
          \o <<"data: ", item.data, "\n\n">>
     ELSE c1

sseStream_resume_leavesChunkQueueOpen(p) ==
  IF p.st = "resolved"
  THEN [again |-> TRUE, chunk |-> sseStream_chunk(p.val), close |-> FALSE]
  ELSE [again |-> FALSE, chunk |-> <<>>, close |-> FALSE]

\* sseStream, after "await eventQueue.take()" settled with p: the chunk of the
\* item is added and the loop goes on, or the chunk queue is closed and the
\* loop is left.
sseStream_resume(p) ==
  IF p.st = "resolved"
  THEN [again |-> TRUE, chunk |-> sseStream_chunk(p.val), close |-> FALSE]
  ELSE [again |-> FALSE, chunk |-> <<>>, close |-> TRUE]

\* Calls the test has made: handlers created, the request sent, add and close
\* calls on the queue it owns.
StreamCalls ==
  (IF streamHandler.made THEN 1 ELSE 0) + (IF hpc = "idle" THEN 0 ELSE 1)
  + Len(eventAdds) + (IF task = "none" THEN Len(chunkAdds) ELSE 0) + closes

InitStreamVars ==
  /\ streamHandler = NoHandler
  /\ hpc = "idle"
  /\ out = <<>>
  /\ chunkQueue = AsyncQueue_new
  /\ chunkTakes = <<>>
  /\ chunkAdds = <<>>
  /\ eventQueue = AsyncQueue_new
  /\ eventTakes = <<>>
  /\ eventAdds = <<>>
  /\ task = "none"
  /\ closes = 0

\* The test calls TestHttpHandlers.chunkedStream(status, headers, chunkQueue).
ChunkedStream(head) ==
  /\ ~streamHandler.made
  /\ StreamCalls < MaxStreamCalls
  /\ streamHandler' = [made |-> TRUE, status |-> head.status, headers |-> head.headers]
  /\ UNCHANGED <<hpc, out, chunkQueue, chunkTakes, chunkAdds, eventQueue,
                 eventTakes, eventAdds, task, closes>>
  /\ UNCHANGED <<queueVars, mutexVars, serverVars, portVars, helperVars>>

\* chunkQueue.add(chunk), by the test or by the task of sseStream.  The
\* history notes whether the queue was open and whether the request had
\* not arrived yet.
AddChunk(chunk) ==
  LET a == AsyncQueue_add(chunkQueue, chunk) IN
    /\ chunkQueue' = a.q
    /\ chunkTakes' = ApplySettles(chunkTakes, a.settle)
    /\ chunkAdds' = Append(chunkAdds, [v |-> chunk, open |-> ~chunkQueue.closed,
                                       early |-> hpc = "idle"])

\* The test calls chunkQueue.add(chunk).
ChunkAdd(chunk) ==
  /\ StreamCalls < MaxStreamCalls
  /\ AddChunk(chunk)
  /\ UNCHANGED <<streamHandler, hpc, out, eventQueue, eventTakes, eventAdds, task, closes>>
  /\ UNCHANGED <<queueVars, mutexVars, serverVars, portVars, helperVars>>

\* The test calls chunkQueue.close().
ChunkClose ==
  /\ StreamCalls < MaxStreamCalls
  /\ LET c == AsyncQueue_close(chunkQueue) IN
       /\ chunkQueue' = c.q
       /\ chunkTakes' = ApplySettles(chunkTakes, c.settle)
  /\ closes' = closes + 1
  /\ UNCHANGED <<streamHandler, hpc, out, chunkAdds, eventQueue, eventTakes,
                 eventAdds, task>>
  /\ UNCHANGED <<queueVars, mutexVars, serverVars, portVars, helperVars>>

\* A request arrives and the server invokes the handler: status and headers,
\* the empty write, then the first chunkQueue.take().
StreamInvoke ==
  /\ streamHandler.made
  /\ hpc = "idle"
  /\ StreamCalls < MaxStreamCalls
  /\ out' = chunkedStream_invoke(streamHandler)
  /\ LET t == TakeFrom(chunkQueue, chunkTakes) IN
       /\ chunkQueue' = t.q
       /\ chunkTakes' = t.ps
  /\ hpc' = "awaiting"
  /\ UNCHANGED <<streamHandler, chunkAdds, eventQueue, eventTakes, eventAdds, task, closes>>
  /\ UNCHANGED <<queueVars, mutexVars, serverVars, portVars, helperVars>>

\* The handler resumes after its take() settled.
StreamResume ==
  /\ hpc = "awaiting"
  /\ chunkTakes[Len(chunkTakes)].st # "pending"
  /\ LET n == chunkedStream_resume(chunkTakes[Len(chunkTakes)])
         t == TakeFrom(chunkQueue, chunkTakes)
     IN
       /\ out' = Append(out, n.call)
       /\ IF n.again
          THEN /\ chunkQueue' = t.q
               /\ chunkTakes' = t.ps
               /\ UNCHANGED hpc
          ELSE /\ hpc' = "done"
               /\ UNCHANGED <<chunkQueue, chunkTakes>>
  /\ UNCHANGED <<streamHandler, chunkAdds, eventQueue, eventTakes, eventAdds, task, closes>>
  /\ UNCHANGED <<queueVars, mutexVars, serverVars, portVars, helperVars>>

\* The test calls TestHttpHandlers.sseStream(eventQueue): a chunk queue of its
\* own, the task started and suspended in its first eventQueue.take(), and
\* the chunkedStream handler for that chunk queue.
SseStream ==
  /\ ~streamHandler.made
  /\ StreamCalls < MaxStreamCalls
  /\ LET t == TakeFrom(eventQueue, eventTakes) IN
       /\ eventQueue' = t.q
       /\ eventTakes' = t.ps
  /\ task' = "awaiting"
  /\ streamHandler' = [made |-> TRUE, status |-> 200,
                 headers |-> {<<"Content-Type", "text/event-stream">>}]
  /\ UNCHANGED <<hpc, out, chunkQueue, chunkTakes, chunkAdds, eventAdds, closes>>
  /\ UNCHANGED <<queueVars, mutexVars, serverVars, portVars, helperVars>>

\* The test calls eventQueue.add(item).
EventAdd(item) ==
  /\ StreamCalls < MaxStreamCalls
  /\ LET a == AsyncQueue_add(eventQueue, item) IN
       /\ eventQueue' = a.q
       /\ eventTakes' = ApplySettles(eventTakes, a.settle)
  /\ eventAdds' = Append(eventAdds, [v |-> item, open |-> ~eventQueue.closed])
  /\ UNCHANGED <<streamHandler, hpc, out, chunkQueue, chunkTakes, chunkAdds, task, closes>>
  /\ UNCHANGED <<queueVars, mutexVars, serverVars, portVars, helperVars>>

\* The test calls eventQueue.close().
EventClose ==
  /\ StreamCalls < MaxStreamCalls
  /\ LET c == AsyncQueue_close(eventQueue) IN
       /\ eventQueue' = c.q
       /\ eventTakes' = ApplySettles(eventTakes, c.settle)
  /\ closes' = closes + 1
  /\ UNCHANGED <<streamHandler, hpc, out, chunkQueue, chunkTakes, chunkAdds,
                 eventAdds, task>>
  /\ UNCHANGED <<queueVars, mutexVars, serverVars, portVars, helperVars>>

\* The task of sseStream resumes after its take() settled: one chunk for the
\* item and the next take(), or chunkQueue.close() and the end of the task.
SseResume ==
  /\ task = "awaiting"
  /\ eventTakes[Len(eventTakes)].st # "pending"
  /\ LET n == sseStream_resume(eventTakes[Len(eventTakes)]) IN
       IF n.again
       THEN /\ AddChunk(n.chunk)
            /\ LET t == TakeFrom(eventQueue, eventTakes) IN
                 /\ eventQueue' = t.q
                 /\ eventTakes' = t.ps
            /\ UNCHANGED task
       ELSE /\ LET c == IF n.close THEN AsyncQueue_close(chunkQueue)
                                   ELSE [q |-> chunkQueue, settle |-> <<>>]
               IN /\ chunkQueue' = c.q
                  /\ chunkTakes' = ApplySettles(chunkTakes, c.settle)
            /\ task' = "done"
            /\ UNCHANGED <<chunkAdds, eventQueue, eventTakes>>
  /\ UNCHANGED <<streamHandler, hpc, out, eventAdds, closes>>
  /\ UNCHANGED <<queueVars, mutexVars, serverVars, portVars, helperVars>>

NextChunked ==
  \/ \E head \in StreamHeads : ChunkedStream(head)
  \/ \E chunk \in Chunks : ChunkAdd(chunk)
  \/ ChunkClose
  \/ StreamInvoke
  \/ StreamResume

\* The test calls server.closeAndWait() while the handler is in its loop:
\* this.responses.forEach((res) => res.end()).  The response of the request
\* was pushed before the handler was invoked, so it is ended; the chunk queue
\* belongs to the test and is left as it is, and the handler stays in its
\* take().
StreamServerClose ==
  /\ hpc = "awaiting"
  /\ \A i \in 1..Len(out) : out[i] # End
  /\ out' = Append(out, End)
  /\ UNCHANGED <<streamHandler, hpc, chunkQueue, chunkTakes, chunkAdds,
                 eventQueue, eventTakes, eventAdds, task, closes>>
  /\ UNCHANGED <<queueVars, mutexVars, serverVars, portVars, helperVars>>

NextChunkedClose ==
  \/ NextChunked
  \/ StreamServerClose

NextSse ==
  \/ SseStream
  \/ \E item \in SSEItems : EventAdd(item)
  \/ EventClose
  \/ SseResume
  \/ StreamInvoke
  \/ StreamResume

(***************************************************************************)
(* TestHttpServer.start: the choice of the port in startInstance.          *)
(***************************************************************************)
FirstPort == 8000    \* private static nextPort: number = 8000

\* The ports the counter hands out in the model.
PortRange == FirstPort..(FirstPort + MaxPorts - 1)

NoPort == 0          \* no port: none given to start, none bound yet

\* The messages of the errors listen() can report.
AddressInUse == <<"listen ", "EADDRINUSE", ": address already in use">>
PermissionDenied == <<"listen ", "EACCES", ": permission denied">>

startInstance_nextPort_reused(np) == [listenOnPort |-> np, nextPort |-> np]

\* const listenOnPort = TestHttpServer.nextPort++;
startInstance_nextPort(np) == [listenOnPort |-> np, nextPort |-> np + 1]

startInstance_catch_alwaysRetries(message) == "retry"

\* catch (err) { if (!err.message.match(/EADDRINUSE/)) throw err; }
startInstance_catch(message) ==
  IF \E i \in 1..Len(message) : message[i] = "EADDRINUSE"
  THEN "retry"
  ELSE "throw"

\* server.url once the server listens on port.
ServerUrl(port) == <<"http", "://localhost:", port>>

InitPortVars ==
  /\ nextPort = FirstPort
  /\ inUse = {}
  /\ servers = <<>>

\* Some other process binds a port.
OtherProcessBinds(port) ==
  /\ port \notin inUse
  /\ inUse' = inUse \cup {port}
  /\ UNCHANGED <<nextPort, servers>>
  /\ UNCHANGED <<queueVars, mutexVars, serverVars, streamVars, helperVars>>

\* One round of the loop of startInstance for entry s of ss, up to its
\* await: take a port from the counter and call listen on it.
Listen(ss, s) ==
  LET n == startInstance_nextPort(nextPort) IN
    /\ nextPort < FirstPort + MaxPorts
    /\ nextPort' = n.nextPort
    /\ servers' = [ss EXCEPT ![s].listenOnPort = n.listenOnPort,
                             ![s].tried = Append(@, n.listenOnPort)]

\* The test calls TestHttpServer.start(options, port); requested is the port
\* argument, NoPort when the test gives none.  start(options?) has no
\* parameter for it.
Start(requested) ==
  /\ Len(servers) < MaxStarts
  /\ Listen(Append(servers, [requested |-> requested, pc |-> "binding",
                             listenOnPort |-> NoPort, tried |-> <<>>,
                             errors |-> <<>>, counterAtCall |-> nextPort,
                             port |-> NoPort, url |-> <<>>]),
            Len(servers) + 1)
  /\ UNCHANGED inUse
  /\ UNCHANGED <<queueVars, mutexVars, serverVars, streamVars, helperVars>>

\* realServer emits "listening": the port was free and is bound now.
Listening(s) ==
  /\ servers[s].pc = "binding"
  /\ servers[s].listenOnPort \notin inUse
  /\ inUse' = inUse \cup {servers[s].listenOnPort}
  /\ servers' = [servers EXCEPT ![s].pc = "listening",
                                ![s].port = servers[s].listenOnPort,
                                ![s].url = ServerUrl(servers[s].listenOnPort)]
  /\ UNCHANGED nextPort
  /\ UNCHANGED <<queueVars, mutexVars, serverVars, streamVars, helperVars>>

\* realServer emits "error": the address is in use, or listen failed for
\* another reason.  The catch clause goes round the loop again or throws.
ListenError(s, message) ==
  /\ servers[s].pc = "binding"
  /\ message = AddressInUse <=> servers[s].listenOnPort \in inUse
  /\ LET ss == [servers EXCEPT ![s].errors = Append(@, message)] IN
       IF startInstance_catch(message) = "retry"
       THEN Listen(ss, s)
       ELSE /\ servers' = [ss EXCEPT ![s].pc = "failed"]
            /\ UNCHANGED nextPort
  /\ UNCHANGED inUse
  /\ UNCHANGED <<queueVars, mutexVars, serverVars, streamVars, helperVars>>

\* The test closes a server that listens: its port is free again.
ServerStop(s) ==
  /\ servers[s].pc = "listening"
  /\ servers' = [servers EXCEPT ![s].pc = "closed"]
  /\ inUse' = inUse \ {servers[s].port}
  /\ UNCHANGED nextPort
  /\ UNCHANGED <<queueVars, mutexVars, serverVars, streamVars, helperVars>>

NextPorts ==
  \/ \E port \in PortRange : OtherProcessBinds(port)
  \/ \E requested \in {NoPort} \cup PortRange : Start(requested)
  \/ \E s \in 1..Len(servers) : Listening(s)
  \/ \E s \in 1..Len(servers), message \in {AddressInUse, PermissionDenied} :
       ListenError(s, message)
  \/ \E s \in 1..Len(servers) : ServerStop(s)

(***************************************************************************)
(* withCloseable.  Each call has its own Closeable; the entry of a call    *)
(* holds what the call was given (arg), how far it is (st), its own        *)
(* Promise (p), the entities its callback was invoked with (passed), what  *)
(* the callback ended with (callback) and the close() calls made on its    *)
(* entity (closed).                                                        *)
(***************************************************************************)
Entities == {"e1", "e2"}

MissingResource ==
  "withCloseable's first parameter was null/undefined or did not return a value"

CreatorError == "creator failed"

\* What a test passes as entityOrCreateFn: the entity itself, a function
\* that returns it or throws, or an async function that resolves with it or
\* rejects.  kind is "entity", "syncFn" or "asyncFn".
CloseableArgs ==
  {[kind |-> "entity", e |-> "e1", ok |-> TRUE],
   [kind |-> "entity", e |-> Null, ok |-> TRUE],
   [kind |-> "entity", e |-> Undefined, ok |-> TRUE],
   [kind |-> "syncFn", e |-> "e1", ok |-> TRUE],
   [kind |-> "syncFn", e |-> Null, ok |-> TRUE],
   [kind |-> "syncFn", e |-> Undefined, ok |-> TRUE],
   [kind |-> "syncFn", e |-> "e1", ok |-> FALSE],
   [kind |-> "asyncFn", e |-> "e2", ok |-> TRUE],
   [kind |-> "asyncFn", e |-> Null, ok |-> TRUE],
   [kind |-> "asyncFn", e |-> "e2", ok |-> FALSE]}

\* What asyncCallback ends with: a value or an error.
CallbackOutcomes == {[ok |-> TRUE, v |-> "result"], [ok |-> FALSE, v |-> "sorry"]}

NewCloseableCall(arg) ==
  [arg |-> arg, st |-> "creating", p |-> NewPromise, passed |-> <<>>,
   callback |-> [ok |-> TRUE, v |-> ""], closed |-> 0]

withCloseable_use_unchecked(k, entity) ==
  [k EXCEPT !.st = "running", !.passed = Append(@, entity)]

\* if (entity === null || entity === undefined) throw new Error(...);
\* try { return await asyncCallback(entity); ...
withCloseable_use(k, entity) ==
  IF entity = Null \/ entity = Undefined
  THEN [k EXCEPT !.st = "done", !.p = Reject(@, MissingResource)]
  ELSE [k EXCEPT !.st = "running", !.passed = Append(@, entity)]

\* The part of withCloseable that runs within the call: up to the await of
\* the creator's result, or up to the await of the callback's Promise.
withCloseable_call(arg) ==
  LET k == NewCloseableCall(arg) IN
    IF arg.kind = "entity" THEN withCloseable_use(k, arg.e)
    ELSE IF arg.kind = "syncFn" /\ ~arg.ok
    THEN [k EXCEPT !.st = "done", !.p = Reject(@, CreatorError)]
    ELSE k

\* The await of Promise.resolve(creator()) completes.
withCloseable_created(k) ==
  IF ~k.arg.ok
  THEN [k EXCEPT !.st = "done", !.p = Reject(@, CreatorError)]
  ELSE withCloseable_use(k, k.arg.e)

withCloseable_finally_closesOnSuccess(k, outcome) ==
  [k EXCEPT !.st = "done", !.callback = outcome,
            !.closed = IF outcome.ok THEN @ + 1 ELSE @,
            !.p = IF outcome.ok THEN Resolve(@, outcome.v) ELSE Reject(@, outcome.v)]

\* ... } finally { entity.close(); }  and the call's Promise takes the
\* outcome of the callback.
withCloseable_finally(k, outcome) ==
  [k EXCEPT !.st = "done", !.callback = outcome, !.closed = @ + 1,
            !.p = IF outcome.ok THEN Resolve(@, outcome.v) ELSE Reject(@, outcome.v)]

\* A test calls withCloseable(arg, asyncCallback).
WithCloseable(arg) ==
  /\ Len(closeables) < MaxCloseableCalls
  /\ closeables' = Append(closeables, withCloseable_call(arg))
  /\ UNCHANGED <<wrapped, sink, sinkTakes, emitted>>
  /\ UNCHANGED <<queueVars, mutexVars, serverVars, streamVars, portVars>>

\* Call c resumes after the await of the creator's result.
CloseableCreated(c) ==
  /\ closeables[c].st = "creating"
  /\ closeables' = [closeables EXCEPT ![c] = withCloseable_created(@)]
  /\ UNCHANGED <<wrapped, sink, sinkTakes, emitted>>
  /\ UNCHANGED <<queueVars, mutexVars, serverVars, streamVars, portVars>>

\* The callback of call c ends with outcome and the call resumes.
CloseableCallbackEnds(c, outcome) ==
  /\ closeables[c].st = "running"
  /\ closeables' = [closeables EXCEPT ![c] = withCloseable_finally(@, outcome)]
  /\ UNCHANGED <<wrapped, sink, sinkTakes, emitted>>
  /\ UNCHANGED <<queueVars, mutexVars, serverVars, streamVars, portVars>>

NextCloseable ==
  \/ \E arg \in CloseableArgs : WithCloseable(arg)
  \/ \E c \in 1..Len(closeables) : CloseableCreated(c)
  \/ \E c \in 1..Len(closeables), outcome \in CallbackOutcomes :
       CloseableCallbackEnds(c, outcome)

(***************************************************************************)
(* promisify and promisifySingle.  A wrapped function is described by      *)
(* what it does within the call: the callback invocations it makes (sync,  *)
(* each the sequence of the arguments given) and whether it then throws.   *)
(* It may invoke the callback again later.                                 *)
(***************************************************************************)
Exception == "exception"

Arg(args, i) == IF i <= Len(args) THEN args[i] ELSE Undefined

\* The arguments a wrapped function gives its callback.
CallbackArgs(kind) ==
  IF kind = "promisify"
  THEN {<<Null, "a">>, <<Undefined, "b">>, <<"sorry">>}
  ELSE {<<"a">>, <<"sorry">>}

WrappedFunctions(kind) ==
  {[sync |-> <<>>, throws |-> FALSE], [sync |-> <<>>, throws |-> TRUE]}
  \cup {[sync |-> <<args>>, throws |-> FALSE] : args \in CallbackArgs(kind)}

PromiseAndErrorValueCallback_callback_alwaysResolves(p, args) ==
  Resolve(p, Arg(args, 2))

\* me.callback = (err, value) => err ? reject(err) : resolve(value);
PromiseAndErrorValueCallback_callback(p, args) ==
  IF Truthy(Arg(args, 1)) THEN Reject(p, Arg(args, 1)) ELSE Resolve(p, Arg(args, 2))

\* me.callback = resolve;
PromiseAndValueCallback_callback(p, args) == Resolve(p, Arg(args, 1))

pc_callback(kind, p, args) ==
  IF kind = "promisify"
  THEN PromiseAndErrorValueCallback_callback(p, args)
  ELSE PromiseAndValueCallback_callback(p, args)

RECURSIVE pc_callbacks(_, _, _)
pc_callbacks(kind, p, invocations) ==
  IF invocations = <<>> THEN p
  ELSE pc_callbacks(kind, pc_callback(kind, p, Head(invocations)), Tail(invocations))

\* (...args) => { const pc = new ...; fn(...args, pc.callback); return pc.promise; }
\* ret is what the caller gets: the Promise, or the exception fn threw.
promisify_call(kind, fn) ==
  [kind |-> kind, fn |-> fn,
   p |-> pc_callbacks(kind, NewPromise, fn.sync),
   ret |-> IF fn.throws THEN "thrown" ELSE "promise",
   thrown |-> IF fn.throws THEN Exception ELSE "",
   first |-> IF fn.sync = <<>> THEN <<>> ELSE <<Head(fn.sync)>>,
   invocations |-> Len(fn.sync)]

CallbacksMade ==
  LET RECURSIVE Sum(_)
      Sum(i) == IF i = 0 THEN 0 ELSE wrapped[i].invocations + Sum(i - 1)
  IN Sum(Len(wrapped))

InitHelperVars ==
  /\ closeables = <<>>
  /\ wrapped = <<>>
  /\ sink = AsyncQueue_new
  /\ sinkTakes = <<>>
  /\ emitted = <<>>

\* A test calls promisify(fn)(...) or promisifySingle(fn)(...).
PromisifyCall(kind, fn) ==
  /\ Len(wrapped) < MaxWrappedCalls
  /\ CallbacksMade + Len(fn.sync) <= MaxCallbacks
  /\ wrapped' = Append(wrapped, promisify_call(kind, fn))
  /\ UNCHANGED <<closeables, sink, sinkTakes, emitted>>
  /\ UNCHANGED <<queueVars, mutexVars, serverVars, streamVars, portVars>>

\* The wrapped function of call c invokes its callback after the call.
LaterCallback(c, args) ==
  /\ CallbacksMade < MaxCallbacks
  /\ wrapped' = [wrapped EXCEPT ![c] =
       [@ EXCEPT !.p = pc_callback(wrapped[c].kind, @, args),
                 !.first = IF @ = <<>> THEN <<args>> ELSE @,
                 !.invocations = @ + 1]]
  /\ UNCHANGED <<closeables, sink, sinkTakes, emitted>>
  /\ UNCHANGED <<queueVars, mutexVars, serverVars, streamVars, portVars>>

NextPromisify ==
  \/ \E kind \in {"promisify", "promisifySingle"} :
       \E fn \in WrappedFunctions(kind) : PromisifyCall(kind, fn)
  \/ \E c \in 1..Len(wrapped) :
       \E args \in CallbackArgs(wrapped[c].kind) : LaterCallback(c, args)

(***************************************************************************)
(* eventSink.  A JavaScript value that reaches the queue is written as     *)
(* [type, of]: "undefined", "value" (of holds it) or "array" (of holds the *)
(* elements).                                                              *)
(***************************************************************************)
SinkName == "bingo"

EventNames == {SinkName, "other"}

\* The values given to emitter.emit after the event name.
EmitArgs == {<<>>, <<"23">>, <<"G", "23">>}

eventSink_item_arrayForOne(args) ==
  IF Len(args) >= 1 THEN [type |-> "array", of |-> args]
  ELSE [type |-> "undefined", of |-> <<>>]

eventSink_item(args) ==
  IF Len(args) > 1 THEN [type |-> "array", of |-> args]
  ELSE IF Len(args) = 1 THEN [type |-> "value", of |-> <<args[1]>>]
  ELSE [type |-> "undefined", of |-> <<>>]

SinkCalls == Len(emitted) + Len(sinkTakes)

\* emitter.emit(name, ...args): the listener eventSink registered runs when
\* name is the name it was registered for.
Emit(name, args) ==
  /\ SinkCalls < MaxSinkCalls
  /\ IF name = SinkName
     THEN LET r == AsyncQueue_add(sink, eventSink_item(args)) IN
            /\ sink' = r.q
            /\ sinkTakes' = ApplySettles(sinkTakes, r.settle)
     ELSE UNCHANGED <<sink, sinkTakes>>
  /\ emitted' = Append(emitted, [name |-> name, args |-> args])
  /\ UNCHANGED <<closeables, wrapped>>
  /\ UNCHANGED <<queueVars, mutexVars, serverVars, streamVars, portVars>>

\* The test calls take() on the queue eventSink returned.
SinkTake ==
  /\ SinkCalls < MaxSinkCalls
  /\ LET t == TakeFrom(sink, sinkTakes) IN
       /\ sink' = t.q
       /\ sinkTakes' = t.ps
  /\ UNCHANGED <<closeables, wrapped, emitted>>
  /\ UNCHANGED <<queueVars, mutexVars, serverVars, streamVars, portVars>>

NextEventSink ==
  \/ \E name \in EventNames, args \in EmitArgs : Emit(name, args)
  \/ SinkTake

(***************************************************************************)
(* The specifications.                                                     *)
(***************************************************************************)
InitAll ==
  /\ InitQueueVars /\ InitMutexVars /\ InitServerVars /\ InitStreamVars
  /\ InitPortVars /\ InitHelperVars

InitQueue == InitAll /\ proxy = FALSE

InitMutex == InitAll /\ proxy = FALSE

InitServer == InitAll

InitStream == InitAll /\ proxy = FALSE

InitPorts == InitAll /\ proxy = FALSE

SpecQueue == InitQueue /\ [][NextQueue]_vars

SpecMutex == InitMutex /\ [][NextMutex]_vars

\* The continuation of "await lock.acquire()" is a microtask: it runs once
\* the awaited value is there.  Every task that is inside its critical
\* section calls release() in the end.
SpecMutexFair ==
  /\ SpecMutex
  /\ \A t \in Tasks : WF_vars(Enter(t)) /\ WF_vars(Release(t))

SpecMutexDo == InitMutex /\ [][NextMutexDo]_vars

SpecMutexAny == InitMutex /\ [][NextMutexAny]_vars

SpecServer == InitServer /\ [][NextServer]_vars

SpecChunked == InitStream /\ [][NextChunked]_vars

SpecChunkedClose == InitStream /\ [][NextChunkedClose]_vars

SpecSse == InitStream /\ [][NextSse]_vars

\* The continuations of the task and of the handler are microtasks: once
\* the Promise they wait for is settled they run.
SpecSseFair == SpecSse /\ WF_vars(SseResume) /\ WF_vars(StreamResume)

SpecPorts == InitPorts /\ [][NextPorts]_vars

InitHelpers == InitAll /\ proxy = FALSE

SpecCloseable == InitHelpers /\ [][NextCloseable]_vars

SpecPromisify == InitHelpers /\ [][NextPromisify]_vars

SpecEventSink == InitHelpers /\ [][NextEventSink]_vars

(***************************************************************************)
(* Properties of the request dispatch (checked under SpecServer).          *)
(***************************************************************************)
EqualIgnoringCase(a, b) ==
  /\ Len(a) = Len(b)
  /\ \A i \in 1..Len(a) : LowerChar(a[i]) = LowerChar(b[i])

\* The forMethodAndPath calls made before request r was dispatched that name
\* its method (whatever the letter case) and exactly its path.
MatchingCalls(r) ==
  {i \in 1..conns[r].regsAtDispatch :
     /\ EqualIgnoringCase(registered[i].method, conns[r].method)
     /\ registered[i].path = conns[r].url}

Latest(S) == CHOOSE i \in S : \A j \in S : j <= i

\* The handler of the last byDefault call made before request r was
\* dispatched; the constructor's respond(404) when there was none.
DefaultAtDispatch(r) ==
  IF conns[r].defaultsAtDispatch = 0
  THEN InitialDefaultHandler
  ELSE defaults[conns[r].defaultsAtDispatch]

Handled == {r \in 1..Len(conns) : conns[r].stage = "handled"}

UpperCaseLetters == {"G", "E", "T", "P", "O", "S", "U", "R", "C", "N", "A", "H"}

BodyMethods ==
  {<<"p", "o", "s", "t">>, <<"p", "u", "t">>, <<"r", "e", "p", "o", "r", "t">>}

\* The requests that resolved nextRequest() calls have returned.
Returned ==
  {nextReqs[i].val : i \in {j \in 1..Len(nextReqs) : nextReqs[j].st = "resolved"}}

\* C11: a request returned by nextRequest() has the method of the request in
\* lower case, its path and headers as received, and a body exactly when the
\* method is post, put or report; the body then is the whole body the client
\* sent, and no handler has been invoked for a request with such a method
\* before all of its body was read.
C11_ReturnedRequestAsReceived ==
  /\ \A r \in Returned :
       /\ EqualIgnoringCase(wrappers[r].method, conns[r].method)
       /\ \A k \in 1..Len(wrappers[r].method) :
            wrappers[r].method[k] \notin UpperCaseLetters
       /\ wrappers[r].path = conns[r].url
       /\ wrappers[r].headers = conns[r].headers
       /\ wrappers[r].body.defined <=> wrappers[r].method \in BodyMethods
       /\ wrappers[r].body.defined => wrappers[r].body.text = conns[r].sent
  /\ \A r \in 1..Len(conns) :
       (res[r].invoked # <<>> /\ toLowerCase(conns[r].method) \in BodyMethods)
         => /\ conns[r].delivered = Len(conns[r].sent)
            /\ conns[r].result = conns[r].sent

\* C11 (amended): as C11, but the path is the one received only for a
\* request other than CONNECT; the path of a CONNECT request to a proxy
\* server is the one received until the "connect" listener resumes, and
\* "http://" followed by the one received from then on.
C11_ReturnedRequestAsReceivedExceptConnect ==
  /\ \A r \in Returned :
       /\ EqualIgnoringCase(wrappers[r].method, conns[r].method)
       /\ \A k \in 1..Len(wrappers[r].method) :
            wrappers[r].method[k] \notin UpperCaseLetters
       /\ wrappers[r].path =
            IF conns[r].method = CONNECT /\ conns[r].stage = "tunnelled"
            THEN "http://" \o conns[r].url
            ELSE conns[r].url
       /\ wrappers[r].headers = conns[r].headers
       /\ wrappers[r].body.defined <=> wrappers[r].method \in BodyMethods
       /\ wrappers[r].body.defined => wrappers[r].body.text = conns[r].sent
  /\ \A r \in 1..Len(conns) :
       (res[r].invoked # <<>> /\ toLowerCase(conns[r].method) \in BodyMethods)
         => /\ conns[r].delivered = Len(conns[r].sent)
            /\ conns[r].result = conns[r].sent

C11_Witness ==
  \E r \in Returned :
    /\ wrappers[r].method = <<"p", "u", "t">>
    /\ wrappers[r].body.text = <<"this is ", "the content">>
    /\ res[r].invoked # <<>>

\* The requests whose preprocessRequest has run to its end.
Preprocessed == {r \in 1..Len(conns) : conns[r].stage # "reading"}

\* C12: requestCount() never decreases; it counts each accepted request once,
\* when the request is captured; the count is raised before the request is
\* added to the request queue (add sees the raised count), and the request
\* is added before a handler is invoked for it.
C12_CountedThenQueuedThenHandled ==
  /\ [][/\ count' >= count
        /\ \A r \in 1..Len(conns') :
             (r \in Preprocessed' /\ (r > Len(conns) \/ r \notin Preprocessed))
               => /\ count' = count + 1
                  /\ conns'[r].countAtAdd = count'
                  /\ res'[r].invoked = <<>>]_vars
  /\ [](/\ count = Cardinality(Preprocessed)
        /\ count <= Len(conns)
        /\ \A r \in Preprocessed :
             conns[r].countAtAdd =
               Cardinality({q \in Preprocessed :
                              conns[q].countAtAdd <= conns[r].countAtAdd})
        /\ \A r \in 1..Len(conns) :
             res[r].invoked # <<>> => r \in Preprocessed /\ conns[r].countAtAdd >= 1)

C12_Witness ==
  /\ count = 2
  /\ Len(conns) = 3
  /\ \E r, q \in Preprocessed :
       /\ conns[r].countAtAdd = 1 /\ conns[q].countAtAdd = 2
       /\ r > q
       /\ res[r].invoked # <<>> /\ res[q].invoked = <<>>

\* The requests captured while the server was open, and the i-th of them in
\* the order of their capture.
CapturedOpen == {r \in Preprocessed : conns[r].addedOpen}

NthCaptured(i) ==
  CHOOSE r \in CapturedOpen :
    Cardinality({q \in CapturedOpen : conns[q].countAtAdd <= conns[r].countAtAdd}) = i

C14_CloseEndsEveryOutstandingResponse ==
  [][(listening /\ ~listening') =>
       \A r \in 1..Len(conns) : res'[r].ended]_vars

(***************************************************************************)
(* Properties of the proxy mode (checked under SpecServer).                *)
(***************************************************************************)
\* The requests held by the request queue or returned by nextRequest().
OnRequestQueue ==
  {requests.items[i] : i \in 1..Len(requests.items)} \cup Returned

\* C21: on a proxy server no handler is ever invoked, neither one registered
\* with forMethodAndPath nor a default handler; every request whose
\* preprocessing has ended is counted by requestCount() and, when it was
\* captured before the server was closed, is on the request queue or was
\* returned by nextRequest().
C21_ProxyInvokesNoHandler ==
  proxy =>
    /\ \A r \in 1..Len(conns) : res[r].invoked = <<>>
    /\ count = Cardinality(Preprocessed)
    /\ \A r \in Preprocessed :
         /\ conns[r].countAtAdd >= 1
         /\ conns[r].addedOpen => r \in OnRequestQueue

\* A plain request to a proxy was relayed although an entry for its method
\* and path is registered; it was counted and returned by nextRequest().
C21_Witness ==
  /\ proxy
  /\ \E r \in Returned :
       /\ conns[r].stage = "proxied"
       /\ \E i \in 1..Len(matchers) : MatcherMatches(matchers[i], wrappers[r])
       /\ res[r].invoked = <<>>
       /\ count = 1

\* The URL the client of request r means to reach.
TargetOf(r) ==
  (CHOOSE c \in ProxyRequests :
     c.method = conns[r].method /\ c.url = conns[r].url).target

\* C22: on a proxy server, whenever test code runs (no listener is between
\* its capture and its resumption), the path of a request returned by
\* nextRequest() is the URL of the target: "http://" followed by host:port
\* for a CONNECT request, the absolute URL of the request line otherwise.
C22_ProxyPathIsTargetUrl ==
  (proxy /\ ~ListenerResuming) =>
    \A r \in Returned :
      /\ wrappers[r].path = TargetOf(r)
      /\ wrappers[r].path =
           IF conns[r].method = CONNECT
           THEN "http://" \o conns[r].url
           ELSE conns[r].url

\* A CONNECT request was returned by nextRequest() with its path rewritten,
\* and a plain request was relayed and is on the request queue.
C22_Witness ==
  /\ proxy
  /\ ~ListenerResuming
  /\ \E r \in Returned, q \in OnRequestQueue :
       /\ conns[r].method = CONNECT
       /\ conns[r].url = "localhost:8000"
       /\ wrappers[r].path = "http://localhost:8000"
       /\ conns[q].stage = "proxied"
       /\ wrappers[q].path = conns[q].url

\* C23: the outbound request a proxy server makes for a plain request has
\* the method, the headers and the whole body of that request, and what the
\* client is sent is the status, headers and body of the target's answer.
C23_RelayCarriesWholeRequestAndResponse ==
  \A r \in 1..Len(conns) :
    conns[r].stage = "proxied" =>
      /\ outbound[r].made
      /\ outbound[r].method = conns[r].method
      /\ outbound[r].headers = conns[r].headers
      /\ outbound[r].body = conns[r].sent
      /\ outbound[r].response.made =>
           /\ outbound[r].relayed = outbound[r].response
           /\ res[r].status = outbound[r].response.status

(***************************************************************************)
(* Properties of the streaming handlers (checked under SpecChunked and     *)
(* SpecSse).                                                               *)
(***************************************************************************)
RECURSIVE Concat(_)
Concat(texts) ==
  IF texts = <<>> THEN <<>> ELSE Head(texts) \o Concat(Tail(texts))

RECURSIVE SelectOpen(_)
SelectOpen(as) ==
  IF as = <<>> THEN <<>>
  ELSE IF Head(as).open THEN <<Head(as).v>> \o SelectOpen(Tail(as))
  ELSE SelectOpen(Tail(as))

\* The chunks added to the chunk queue before it was closed, in call order.
OpenChunks == SelectOpen(chunkAdds)

\* The chunks the handler has written after the head and the empty write.
WrittenChunks == [k \in 1..(Len(out) - 2 - (IF hpc = "done" THEN 1 ELSE 0)) |->
                    out[k + 2].chunk]

\* The body of the response: everything written to it, in order.
ResponseBody ==
  Concat([k \in 1..Len(out) |-> IF out[k].op = "write" THEN out[k].chunk ELSE <<>>])

Ends == Cardinality({k \in 1..Len(out) : out[k].op = "end"})

\* C15: once invoked, a chunkedStream handler has written its status and
\* headers first, then the empty write, then chunks only: the chunks added to
\* its queue before close(), in the order of the add calls; it ends the
\* response once, as its last call, after a take() was rejected because the
\* queue is closed, and the body then is the concatenation of all chunks
\* added before close(), before or after the request arrived.
C15_ChunkedStreamWritesQueueInOrder ==
  /\ hpc = "idle" => out = <<>>
  /\ hpc # "idle" =>
       /\ Len(out) >= 2
       /\ out[1] = WriteHead(streamHandler.status, streamHandler.headers)
       /\ out[2] = Write(<<>>)
       /\ \A k \in 3..Len(out) :
            out[k].op = "write" \/ (out[k].op = "end" /\ k = Len(out))
       /\ Len(WrittenChunks) <= Len(OpenChunks)
       /\ \A k \in 1..Len(WrittenChunks) : WrittenChunks[k] = OpenChunks[k]
       /\ Ends = (IF hpc = "done" THEN 1 ELSE 0)
       /\ hpc = "done" =>
            /\ chunkQueue.closed
            /\ chunkTakes[Len(chunkTakes)].st = "rejected"
            /\ chunkTakes[Len(chunkTakes)].err = QueueClosed
            /\ WrittenChunks = OpenChunks
            /\ ResponseBody = Concat(OpenChunks)

C15_Witness ==
  /\ hpc = "done"
  /\ ResponseBody = <<"thing", "+stuff">>
  /\ Len(chunkAdds) = 2
  /\ chunkAdds[1].early /\ ~chunkAdds[2].early

\* The item the task of sseStream made its k-th chunk of: the value of its
\* k-th take().
ItemOfChunk(k) == eventTakes[k].val

\* The chunk the formatting rule gives for an item: the data form when the
\* item has data, with the id piece when the id is a non-empty text;
\* otherwise the comment form.
ChunkByRule(item) ==
  IF item.data # Undefined
  THEN <<"event: ", item.type, "\n">>
       \o (IF item.id \notin {Undefined, ""} THEN <<"id: ", item.id>> ELSE <<>>)
       \o <<"data: ", item.data, "\n\n">>
  ELSE <<":", item.comment, "\n">>

\* C16: each chunk sseStream makes of an item that has a type or has no data
\* is ":" comment "\n" for an item with only a comment, and "event: " type
\* "\n", then "id: " id without a newline only when the id is set (a
\* non-empty text), then "data: " data "\n\n" for an item with data; with
\* both comment and data the chunk is the data form and holds no comment.
C16_SseChunkFollowsFormattingRule ==
  \A k \in 1..Len(chunkAdds) :
    (ItemOfChunk(k).type # Undefined \/ ItemOfChunk(k).data = Undefined) =>
      /\ chunkAdds[k].v = ChunkByRule(ItemOfChunk(k))
      /\ ItemOfChunk(k).data # Undefined =>
           \A i \in 1..Len(chunkAdds[k].v) : chunkAdds[k].v[i] # ":"

C16_Witness ==
  \E j, k \in 1..Len(chunkAdds) :
    /\ ItemOfChunk(j).comment = "hi" /\ ItemOfChunk(j).data = "stuff"
    /\ chunkAdds[j].v = <<"event: ", "put", "\n", "data: ", "stuff", "\n\n">>
    /\ ItemOfChunk(k).id = "7"
    /\ chunkAdds[k].v =
         <<"event: ", "put", "\n", "id: ", "7", "data: ", "stuff", "\n\n">>

\* C18: the chunk of an item that has data but no type holds no "event:" line.
C18_NoEventLineWithoutType ==
  \A k \in 1..Len(chunkAdds) :
    (ItemOfChunk(k).data # Undefined /\ ItemOfChunk(k).type = Undefined) =>
      \A i \in 1..Len(chunkAdds[k].v) : chunkAdds[k].v[i] # "event: "

\* The items added to the event queue before it was closed, in call order.
OpenEvents == SelectOpen(eventAdds)

\* C17: the k-th chunk the task of sseStream adds is the chunk of the k-th
\* item added to the event queue before its close, one chunk per item; every
\* chunk is added while the chunk queue is open; the task closes the chunk
\* queue only when the event queue is closed and the chunk of its last item
\* has been added; and once the event queue is closed, a response served by
\* the handler ends with exactly those chunks as its body.
C17_SseTaskFeedsChunksThenCloses ==
  /\ [](/\ Len(chunkAdds) <= Len(OpenEvents)
        /\ \A k \in 1..Len(chunkAdds) :
             /\ chunkAdds[k].open
             /\ ItemOfChunk(k) = OpenEvents[k]
             /\ chunkAdds[k].v = sseStream_chunk(OpenEvents[k])
        /\ chunkQueue.closed <=> task = "done"
        /\ chunkQueue.closed =>
             eventQueue.closed /\ Len(chunkAdds) = Len(OpenEvents)
        /\ hpc = "done" => ResponseBody = Concat([k \in 1..Len(OpenEvents) |->
                                                   sseStream_chunk(OpenEvents[k])]))
  /\ (task # "none" /\ hpc # "idle" /\ eventQueue.closed)
       ~> (hpc = "done" /\ Ends = 1
           /\ ResponseBody = Concat([k \in 1..Len(OpenEvents) |->
                                       sseStream_chunk(OpenEvents[k])]))

C17_Witness ==
  /\ hpc = "done"
  /\ task = "done"
  /\ Len(eventAdds) = 2 /\ Len(OpenEvents) = 2
  /\ ResponseBody =
       <<":", "hi", "\n", "event: ", "put", "\n", "data: ", "stuff", "\n\n">>

(***************************************************************************)
(* Properties of the choice of the port (checked under SpecPorts).         *)
(***************************************************************************)
Bound(s) == servers[s].pc \in {"listening", "closed"}

\* The rounds of the loop server s has made, as <<server, round>> pairs.
Tries ==
  {t \in (1..Len(servers)) \X (1..MaxPorts) : t[2] <= Len(servers[t[1]].tried)}

\* C19: a start call that is given a port listens on that port only: it makes
\* one attempt, on the port given; when it binds, server.port and server.url
\* name that port; the call leaves the shared counter as it was.
C19_FixedPortIsUsedWithoutCounter ==
  /\ [](\A s \in 1..Len(servers) :
          servers[s].requested # NoPort =>
            /\ Len(servers[s].tried) <= 1
            /\ \A k \in 1..Len(servers[s].tried) :
                 servers[s].tried[k] = servers[s].requested
            /\ Bound(s) => /\ servers[s].port = servers[s].requested
                           /\ servers[s].url = ServerUrl(servers[s].requested))
  /\ [][(Len(servers') > Len(servers)
          /\ servers'[Len(servers')].requested # NoPort) => nextPort' = nextPort]_vars

\* C20: a start call that is given no port tries counter values in increasing
\* order, none of them tried by another round or call; every port it went
\* past failed with address-in-use; when it binds, server.port is the port of
\* its last attempt, the first that did not fail; an error of another kind
\* ends the call as failed, with that error, and it makes no further attempt.
C20_AutoPortSkipsOnlyPortsInUse ==
  /\ [](/\ \A s \in 1..Len(servers) :
             servers[s].requested = NoPort =>
               LET tried == servers[s].tried
                   errors == servers[s].errors
               IN /\ Len(tried) >= 1
                  /\ tried[1] = servers[s].counterAtCall
                  /\ \A k \in 1..Len(tried) : FirstPort <= tried[k] /\ tried[k] < nextPort
                  /\ \A j, k \in 1..Len(tried) : j < k => tried[j] < tried[k]
                  /\ \A k \in 1..(Len(tried) - 1) : errors[k] = AddressInUse
                  /\ servers[s].pc = "failed" =>
                       /\ Len(errors) = Len(tried)
                       /\ errors[Len(errors)] # AddressInUse
                       /\ servers[s].port = NoPort
                  /\ servers[s].pc # "failed" => Len(errors) = Len(tried) - 1
                  /\ Bound(s) => /\ servers[s].port = tried[Len(tried)]
                                 /\ servers[s].url = ServerUrl(servers[s].port)
        /\ \A t, u \in Tries :
             t # u => servers[t[1]].tried[t[2]] # servers[u[1]].tried[u[2]])
  /\ [][\A s \in 1..Len(servers) :
          servers[s].pc = "failed" => servers'[s] = servers[s]]_vars

C20_Witness ==
  \E s, t \in 1..Len(servers) :
    /\ servers[s].requested = NoPort /\ servers[t].requested = NoPort
    /\ servers[s].pc = "listening"
    /\ servers[s].tried = <<FirstPort, FirstPort + 1>>
    /\ servers[s].errors = <<AddressInUse>>
    /\ servers[s].port = FirstPort + 1
    /\ servers[t].pc = "failed"
    /\ servers[t].errors = <<PermissionDenied>>
    /\ servers[t].tried = <<FirstPort + 2>>

(***************************************************************************)
(* Further properties of AsyncQueue (checked under SpecQueue).             *)
(***************************************************************************)
\* The take() calls that have been given an item.
ServedTakes == {i \in 1..Len(takes) : takes[i].st = "resolved"}

\* C30: isEmpty() is true exactly when length() is 0; length() is the number
\* of items added while the queue was open and not yet handed to a take(),
\* never negative; a take() that has to wait changes neither.
C30_IsEmptyIffLengthZero ==
  /\ [](/\ AsyncQueue_isEmpty(queue) <=> AsyncQueue_length(queue) = 0
        /\ AsyncQueue_length(queue) >= 0
        /\ AsyncQueue_length(queue) =
             Len(OpenAdds(adds)) - Cardinality(ServedTakes))
  /\ [][(Len(takes') > Len(takes) /\ takes'[Len(takes')].st = "pending") =>
          /\ AsyncQueue_length(queue') = AsyncQueue_length(queue)
          /\ AsyncQueue_isEmpty(queue') = AsyncQueue_isEmpty(queue)]_vars

C30_Witness ==
  /\ Len(queue.awaiters) >= 2
  /\ AsyncQueue_isEmpty(queue)
  /\ AsyncQueue_length(queue) = 0
  /\ Cardinality(ServedTakes) >= 2
(***************************************************************************)
(* Properties of withCloseable (checked under SpecCloseable).              *)
(***************************************************************************)
\* The creator of the call, if it has one, did not fail.
Produced(k) == k.arg.kind = "entity" \/ k.arg.ok

\* C26: a call whose entity (given, or produced by a sync or async creator)
\* is not null or undefined invokes the callback once, with that entity,
\* calls close() once, after the callback has ended and whether it ended
\* with a value or an error, and settles as the callback did; a call whose
\* entity is null or undefined is rejected and never invokes the callback.
C26_ClosesOnceAndPassesOutcome ==
  \A c \in 1..Len(closeables) :
    LET k == closeables[c] IN
      /\ k.closed <= 1
      /\ Len(k.passed) <= 1
      /\ (Produced(k) /\ k.arg.e \in Entities /\ k.st = "running") =>
           k.passed = <<k.arg.e>> /\ k.closed = 0 /\ k.p.st = "pending"
      /\ (Produced(k) /\ k.arg.e \in Entities /\ k.st = "done") =>
           /\ k.passed = <<k.arg.e>>
           /\ k.closed = 1
           /\ IF k.callback.ok
              THEN k.p.st = "resolved" /\ k.p.val = k.callback.v
              ELSE k.p.st = "rejected" /\ k.p.err = k.callback.v
      /\ (Produced(k) /\ k.arg.e \notin Entities) =>
           /\ k.passed = <<>>
           /\ k.closed = 0
           /\ k.st = "done" => k.p.st = "rejected" /\ k.p.err = MissingResource

\* An entity made by an async creator was closed after its callback failed,
\* and a call given null was rejected without its callback.
C26_Witness ==
  \E c, d \in 1..Len(closeables) :
    /\ closeables[c].arg = [kind |-> "asyncFn", e |-> "e2", ok |-> TRUE]
    /\ closeables[c].p.st = "rejected"
    /\ closeables[c].p.err = "sorry"
    /\ closeables[c].closed = 1
    /\ closeables[d].arg.e = Null
    /\ closeables[d].p.st = "rejected"
    /\ closeables[d].passed = <<>>

(***************************************************************************)
(* Properties of promisify and promisifySingle (checked under              *)
(* SpecPromisify).                                                         *)
(***************************************************************************)
\* C27: as long as the wrapped function has not invoked its callback the
\* Promise is pending; after that it is what the first invocation made it,
\* whatever came later: for promisify, resolved with value after (null,
\* value) and rejected with err after an error; for promisifySingle,
\* resolved with the single value.
C27_FirstCallbackSettles ==
  \A c \in 1..Len(wrapped) :
    LET w == wrapped[c] IN
      IF w.first = <<>>
      THEN w.p.st = "pending"
      ELSE LET args == w.first[1] IN
             IF w.kind = "promisifySingle"
             THEN w.p.st = "resolved" /\ w.p.val = args[1]
             ELSE IF args[1] \in {Null, Undefined}
             THEN w.p.st = "resolved" /\ w.p.val = args[2]
             ELSE w.p.st = "rejected" /\ w.p.err = args[1]

\* A promisify call rejected by an error that a later (null, value) did not
\* change, and a promisifySingle call resolved with its value.
C27_Witness ==
  \E c, d \in 1..Len(wrapped) :
    /\ wrapped[c].kind = "promisify"
    /\ wrapped[c].ret = "promise"
    /\ wrapped[c].first = <<(<<"sorry">>)>>
    /\ wrapped[c].invocations >= 2
    /\ wrapped[c].p.nSettle >= 2
    /\ wrapped[c].p.st = "rejected"
    /\ wrapped[d].kind = "promisifySingle"
    /\ wrapped[d].p.st = "resolved"
    /\ wrapped[d].p.val = "a"

\* C28: when the wrapped function throws, the call of the function made by
\* promisify or promisifySingle returns a Promise, and that Promise is
\* rejected with the exception.
C28_ThrowBecomesRejection ==
  \A c \in 1..Len(wrapped) :
    wrapped[c].fn.throws =>
      /\ wrapped[c].ret = "promise"
      /\ wrapped[c].p.st = "rejected"
      /\ wrapped[c].p.err = Exception

(***************************************************************************)
(* Properties of eventSink (checked under SpecEventSink).                  *)
(***************************************************************************)
\* The argument lists of the emissions of the named event, in order.
RECURSIVE NamedEmissions(_)
NamedEmissions(es) ==
  IF es = <<>> THEN <<>>
  ELSE IF Head(es).name = SinkName
  THEN <<Head(es).args>> \o NamedEmissions(Tail(es))
  ELSE NamedEmissions(Tail(es))

\* The item the claim gives an emission.
ItemOfEmission(args) ==
  CASE Len(args) = 0 -> [type |-> "undefined", of |-> <<>>]
    [] Len(args) = 1 -> [type |-> "value", of |-> <<args[1]>>]
    [] Len(args) > 1 -> [type |-> "array", of |-> args]

\* C29: the i-th emission of the named event is the i-th item of the queue:
\* it is the value of the i-th take() call, or it is stored in the queue
\* when fewer take() calls were made; nothing else is in the queue; and the
\* item is undefined, the value, or the array of the values.
C29_OneItemPerEmissionInOrder ==
  LET named == NamedEmissions(emitted) IN
    /\ Len(sink.items) = Max(0, Len(named) - Len(sinkTakes))
    /\ \A i \in 1..Len(sinkTakes) :
         IF i <= Len(named)
         THEN sinkTakes[i].st = "resolved"
              /\ sinkTakes[i].val = ItemOfEmission(named[i])
         ELSE sinkTakes[i].st = "pending"
    /\ \A j \in 1..Len(sink.items) :
         sink.items[j] = ItemOfEmission(named[Len(sinkTakes) + j])

\* Emissions of the named event with different numbers of values and one of
\* another event; a take() that waited has its item and one item is stored.
C29_Witness ==
  LET named == NamedEmissions(emitted) IN
    /\ Len(named) >= 2
    /\ Len(named[1]) # Len(named[2])
    /\ Len(named[2]) = 2
    /\ Len(emitted) > Len(named)
    /\ Len(sinkTakes) = 1
    /\ sinkTakes[1].nSettle = 1
    /\ Len(sink.items) = 1

(***************************************************************************)
(* Further properties of the request capture (checked under SpecServer).   *)
(***************************************************************************)
\* C31: once a request has been added to the request queue, none of the
\* fields of its TestHttpRequest object (method, path, headers, body) is
\* ever changed, on a proxy server as well.
C31_CapturedRequestNeverChanges ==
  [][\A r \in Preprocessed : wrappers'[r] = wrappers[r]]_vars

(***************************************************************************)
(* Further properties of AsyncMutex (checked under SpecMutex).             *)
(***************************************************************************)
\* C32: whatever the state of the mutex at the call, free or held, what
\* acquire() returns is a Promise.
C32_AcquireReturnsPromise ==
  \A t \in Tasks : pc[t] # "idle" => acq[t].ret = "promise"

\* The tasks whose Promise release() has resolved and that have not yet run.
Resumed ==
  {t \in Tasks : pc[t] = "awaiting" /\ acq[t].ret = "promise" /\ acq[t].st = "resolved"}

\* C33: a release() call made while waiters are queued resolves the Promise
\* of the oldest one and leaves the mutex held; the mutex is held as long as
\* a resumed waiter has not run; and an acquire() call made in that time
\* gets a Promise and is queued last, it is not granted at once.
C33_ReleaseHandsOverWithoutFreeing ==
  /\ [][Len(mutex'.awaiters) < Len(mutex.awaiters) =>
          /\ mutex'.held >= 1
          /\ mutex'.awaiters = Tail(mutex.awaiters)
          /\ Head(mutex.awaiters) \in Resumed']_vars
  /\ [](Resumed # {} => mutex.held >= 1)
  /\ [][(Resumed # {} /\ Len(acqOrder') > Len(acqOrder)) =>
          LET t == acqOrder'[Len(acqOrder')] IN
            /\ acq'[t].ret = "promise"
            /\ acq'[t].st = "pending"
            /\ mutex'.awaiters = Append(mutex.awaiters, t)]_vars

\* A task released the lock to a waiter and called acquire() again before
\* the waiter ran: it is queued, the waiter is resumed and has not run yet.
C33_Witness ==
  \E t, u \in Tasks :
    /\ t # u
    /\ acqOrder = <<t, u, t>>
    /\ enterOrder = <<t>>
    /\ u \in Resumed
    /\ pc[t] = "awaiting" /\ acq[t].ret = "promise" /\ acq[t].st = "pending"
    /\ mutex.awaiters = <<t>>

(***************************************************************************)
(* Properties of AsyncMutex under any sequence of acquire() and release()  *)
(* calls, releases by non-holders included (checked under SpecMutexAny).   *)
(***************************************************************************)
\* C34: the counter held is 0 with no waiter queued, or it is 1 plus the
\* number of queued waiters; it is never negative.
C34_HeldCountsHolderAndWaiters ==
  /\ mutex.held >= 0
  /\ \/ mutex.held = 0 /\ mutex.awaiters = <<>>
     \/ mutex.held = 1 + Len(mutex.awaiters)

\* A release() by a non-holder has let a second task into its critical
\* section; the first one has released the lock and waits for it again.
C34_Witness ==
  /\ Len(freeReleases) >= 1
  /\ Cardinality(InCritical) = 1
  /\ Len(enterOrder) = 2
  /\ Len(acqOrder) = 3
  /\ Len(mutex.awaiters) = 1
  /\ mutex.held = 2

(***************************************************************************)
(* Liveness of AsyncMutex (checked under SpecMutexFair).                   *)
(***************************************************************************)
\* C35: when every task that is granted the lock calls release() in the
\* end, every acquire() call is granted in the end: a task that awaits
\* acquire() gets into its critical section.
C35_EveryAcquireIsGranted ==
  \A t \in Tasks : (pc[t] = "awaiting") ~> (pc[t] = "critical")

\* The third task in line, queued behind a holder and a waiter, is inside
\* its critical section.
C35_Witness ==
  \E t \in Tasks :
    /\ Len(acqOrder) >= 3
    /\ acqOrder[3] = t
    /\ acqOrder[1] # t /\ acqOrder[2] # t /\ acqOrder[1] # acqOrder[2]
    /\ enterOrder = <<acqOrder[1], acqOrder[2], t>>
    /\ acq[t].ret = "promise"
    /\ pc[t] = "critical"

(***************************************************************************)
(* Conservation of the items of an AsyncQueue (checked under SpecQueue).   *)
(***************************************************************************)
\* How often the value v occurs in the sequence s.
Occurrences(s, v) == Cardinality({i \in 1..Len(s) : s[i] = v})

\* The values the take() calls have received, in call order.
RECURSIVE Delivered(_)
Delivered(ps) ==
  IF ps = <<>> THEN <<>>
  ELSE IF Head(ps).st = "resolved" THEN <<Head(ps).val>> \o Delivered(Tail(ps))
  ELSE Delivered(Tail(ps))

\* C36: no item is lost or duplicated.  After any sequence of add(), take()
\* and close() calls every item added while the queue was open has been
\* delivered to exactly one take() or is still stored (each value occurs
\* among the delivered and the stored items as often as it was added), no
\* take() is settled twice, and no take() receives an item that was not added.
C36_NoItemLostOrDuplicated ==
  /\ \A v \in Items :
       Occurrences(OpenAdds(adds), v) =
         Occurrences(Delivered(takes), v) + Occurrences(queue.items, v)
  /\ \A i \in 1..Len(takes) :
       /\ takes[i].nSettle <= 1
       /\ takes[i].st = "resolved" =>
            /\ takes[i].nSettle = 1
            /\ takes[i].val \in Items
            /\ Occurrences(OpenAdds(adds), takes[i].val) >= 1
  /\ Len(Delivered(takes)) + Len(queue.items) = Len(OpenAdds(adds))

\* The same value was added twice and another once before close(); one take()
\* waited for its item, one took a stored item, one item is still stored, and
\* a take() after the close was handed nothing.
C36_Witness ==
  /\ closeCalls >= 1
  /\ \E v \in Items : Occurrences(OpenAdds(adds), v) = 2
  /\ Len(OpenAdds(adds)) = 3
  /\ Len(Delivered(takes)) = 2
  /\ Len(queue.items) = 1
  /\ \E i \in 1..Len(takes) : takes[i].waited /\ takes[i].st = "resolved"
  /\ \E i \in 1..Len(takes) : ~takes[i].waited /\ takes[i].st = "resolved"

(***************************************************************************)
(* The order of nextRequest() (checked under SpecServer).                  *)
(***************************************************************************)
\* C37: nextRequest() returns the requests in the order in which the server
\* received them (the order of conns), also when an earlier request has a
\* body that is still being read when a later request arrives: every request
\* received before the one a nextRequest() call returned was returned by an
\* earlier nextRequest() call.
C37_NextRequestInArrivalOrder ==
  \A i \in 1..Len(nextReqs) :
    nextReqs[i].st = "resolved" =>
      \A q \in 1..(nextReqs[i].val - 1) :
        \E j \in 1..(i - 1) : Settled(nextReqs[j], q)

(***************************************************************************)
(* Registrations and the requests they apply to (checked under SpecServer).*)
(***************************************************************************)
\* The forMethodAndPath calls made so far that name the method (whatever the
\* letter case) and exactly the path of request r.
MatchingNow(r) ==
  {i \in 1..Len(registered) :
     /\ EqualIgnoringCase(registered[i].method, conns[r].method)
     /\ registered[i].path = conns[r].url}

\* The handler of the last byDefault call made so far.
DefaultNow ==
  IF defaults = <<>> THEN InitialDefaultHandler ELSE defaults[Len(defaults)]

\* Request r is matched against the handlers in this step.
Matched(r) ==
  /\ r \in 1..Len(conns)
  /\ conns[r].stage = "captured"
  /\ conns'[r].stage = "handled"

\* C38: the handlers a request is matched against are those registered when
\* it is matched.  A handler registered with forMethodAndPath or byDefault
\* after the matching of a request is never applied to that request: the
\* handler that ran for it stays the one that ran, and it is one that had
\* been registered by then.  Every handler registered before applies: the
\* request gets the handler of the latest matching forMethodAndPath call made
\* so far, else the one of the latest byDefault call made so far.
C38_HandlersFixedWhenMatched ==
  /\ [][\A r \in Handled :
          /\ conns'[r].stage = "handled"
          /\ res'[r].invoked = res[r].invoked
          /\ res'[r].status = res[r].status]_vars
  /\ [](\A r \in Handled :
          \A k \in 1..Len(res[r].invoked) :
            res[r].invoked[k] <=
              conns[r].regsAtDispatch + conns[r].defaultsAtDispatch)
  /\ [][\A r \in 1..Len(conns) :
          Matched(r) =>
            /\ registered' = registered /\ defaults' = defaults
            /\ res'[r].invoked =
                 <<IF MatchingNow(r) # {}
                   THEN registered[Latest(MatchingNow(r))].handler.id
                   ELSE DefaultNow.id>>]_vars

\* Request r was answered by the default handler; a matching handler was
\* registered afterwards, and the later request q for the same method and
\* path was answered by it, while the answer to r is as it was.
C38_Witness ==
  \E r, q \in Handled :
    /\ r < q
    /\ conns[r].method = conns[q].method /\ conns[r].url = conns[q].url
    /\ conns[r].regsAtDispatch = 0
    /\ res[r].invoked = <<InitialDefaultHandler.id>>
    /\ res[r].status = 404
    /\ \E i \in MatchingCalls(q) :
         /\ i > conns[r].regsAtDispatch
         /\ res[q].invoked = <<registered[i].handler.id>>
         /\ res[q].status = registered[i].handler.status

(***************************************************************************)
(* The shared port counter (checked under SpecPorts).                      *)
(***************************************************************************)
\* The ports of the bind attempts made so far, by any server.
PortsTried == {servers[t[1]].tried[t[2]] : t \in Tries}

\* Server s makes a bind attempt in this step.
Attempts(s) ==
  IF s <= Len(servers)
  THEN Len(servers'[s].tried) = Len(servers[s].tried) + 1
  ELSE s = Len(servers') /\ Len(servers'[s].tried) = 1

\* C39: the port counter never decreases; every bind attempt uses the value
\* of the counter at the attempt, which no earlier attempt of any server
\* used, and moves the counter past it; so two servers, also when their
\* start calls run at the same time, never get the same port.
C39_CounterValuesAreNeverReused ==
  /\ [][nextPort' >= nextPort]_vars
  /\ [][\A s \in 1..Len(servers') :
          Attempts(s) =>
            LET port == servers'[s].tried[Len(servers'[s].tried)] IN
              /\ port = nextPort
              /\ port \notin PortsTried
              /\ nextPort' > port]_vars
  /\ [](/\ \A t, u \in Tries :
             t # u => servers[t[1]].tried[t[2]] # servers[u[1]].tried[u[2]]
        /\ \A p \in PortsTried : p < nextPort
        /\ \A s, t \in 1..Len(servers) :
             (s # t /\ Bound(s) /\ Bound(t)) => servers[s].port # servers[t].port)

\* Two start calls ran at the same time: the first found its port in use,
\* the second made its attempt while the first was still binding, and the
\* first went on with the next counter value; both listen, on different ports.
C39_Witness ==
  \E s, t \in 1..Len(servers) :
    /\ s < t
    /\ servers[s].tried = <<FirstPort, FirstPort + 2>>
    /\ servers[t].tried = <<FirstPort + 1>>
    /\ servers[s].pc = "listening" /\ servers[t].pc = "listening"
    /\ servers[s].port = FirstPort + 2
    /\ servers[t].port = FirstPort + 1
    /\ nextPort = FirstPort + 3

(***************************************************************************)
(* chunkedStream and a server that is closed (checked under                *)
(* SpecChunkedClose).                                                      *)
(***************************************************************************)
\* C40: a chunkedStream handler never writes a chunk to a response after
\* that response has ended, also when closeAndWait() ended the response
\* while the chunk queue was open and chunks are added afterwards: among the
\* calls made on the response no write comes after an end.
C40_NoWriteAfterEnd ==
  \A i, j \in 1..Len(out) :
    (i < j /\ out[i].op = "end") => out[j].op # "write"

====
